---------------------------- MODULE Spec2Model ----------------------------
(***************************************************************************)
(* Matching engine of the betting-platform reconciliation scripts.         *)
(*                                                                         *)
(* Amounts are integer cents, dates are day numbers, checkbook timestamps  *)
(* are ticks (TicksPerDay ticks to a day).  Every record carries its       *)
(* position in the fetched list as its id, so a Match names records by id. *)
(* A missing value (Python None / empty list / absent key) is 0 or <<>>.   *)
(***************************************************************************)
EXTENDS Integers, Sequences, FiniteSets, TLC

VARIABLES
    flavor,                 \* which matcher script is running
    dry_run,                \* the runner's --dry-run flag
    pc,                     \* position of the run
    i,                      \* index of the platform transaction being processed
    platform_transactions,  \* fetched platform transactions
    bank_transactions,      \* fetched bank transactions
    checkbook_payments,     \* fetched checkbook payments (received flavor)
    scraped_transactions,   \* fetched scraped statement lines
    matches,                \* Match / SimpleMatch records produced so far
    three_way_matches,      \* ThreeWayMatch records produced so far
    matched_bank_transaction_ids,
    matched_platform_transaction_ids,
    used_checkbook_payment_ids,   \* set of <<cp id, pt id>>: the cp_id -> pt_id map
    unmatched_info,         \* platform transaction ids reported unmatched
    candidates,             \* the leg candidates found for the last transfer processed
    commands,               \* ledger commands issued, in order
    exec_result,            \* what split execution returned to its caller
    findings,               \* what investigate_unmatched_received returned
    predicate_call,         \* a predicate called on its own: arguments and result
    previous_matches        \* Matches of the earlier run whose links were persisted

vars == <<flavor, dry_run, pc, i, platform_transactions, bank_transactions,
          checkbook_payments, scraped_transactions, matches, three_way_matches,
          matched_bank_transaction_ids, matched_platform_transaction_ids,
          used_checkbook_payment_ids, unmatched_info, candidates, commands,
          exec_result, findings, predicate_call,
          previous_matches>>

---------------------------------------------------------------------------
(* Bounds of the model *)

NPT == 2        \* platform transactions fetched per run
NBT == 2        \* bank transactions fetched per run
NCP == 2        \* checkbook payments fetched per run

(* Program constants *)

TicksPerDay == 2
USER_ID == 1
OTHER_USER == 2
TRANSFER_ACCOUNT_ID == 36715
FEES_ACCOUNT_ID == 18

---------------------------------------------------------------------------
(* Generic helpers *)

Abs(x) == IF x < 0 THEN -x ELSE x

Range(s) == { s[k] : k \in 1..Len(s) }

\* the records of a fetched list, each tagged with its position as id
WithIds(f) == [ k \in DOMAIN f |-> [id |-> k] @@ f[k] ]

RECURSIVE FilterSeq(_, _)
FilterSeq(s, keep) ==
    IF s = <<>> THEN <<>>
    ELSE IF Head(s).id \in keep THEN <<Head(s)>> \o FilterSeq(Tail(s), keep)
    ELSE FilterSeq(Tail(s), keep)

\* Python min(seq, key=...): the position of the first smallest key
MinIndex(keys) ==
    CHOOSE k \in 1..Len(keys) :
        /\ \A j \in 1..Len(keys) : keys[k] <= keys[j]
        /\ \A j \in 1..(k - 1) : keys[j] > keys[k]

NoRec == [id |-> 0]

\* the first element of a list, NoRec when it is empty
FirstOr(s) == IF s = <<>> THEN NoRec ELSE s[1]

\* no predicate is being called on its own
NoCall == [fn |-> "", a |-> 0, b |-> 0, result |-> FALSE]

\* no platform transaction processed yet, no leg found
NoCandidates == [pt |-> 0, source |-> 0, dest |-> 0]

---------------------------------------------------------------------------
(* Input universes.  A platform transaction carries Transaction_Type,      *)
(* Amount, Date, the bankaccount_id of its 'from' and 'to' sides, its      *)
(* top-level To_Account id, player_id, related_bank_transaction (a list    *)
(* of [id, bankaccount_id]) and Added_By.  A bank transaction carries amount, *)
(* date, bankaccount_id, a keyword class for its name, the link field the  *)
(* flavor reads (transaction_link / linked_transaction) and its external   *)
(* reference transaction_id.                                               *)

PT(type, amount, date, fromAcct, toAcct, related, addedBy) ==
    [Transaction_Type |-> type, Amount |-> amount, Date |-> date,
     from_bankaccount_id |-> fromAcct, to_bankaccount_id |-> toAcct,
     To_Account |-> 100 + toAcct, player_id |-> USER_ID,
     related_bank_transaction |-> related, Added_By |-> addedBy]

BT(amount, date, acct, name, link) ==
    [amount |-> amount, date |-> date, bankaccount_id |-> acct, name |-> name,
     transaction_link |-> link]

CP(amount, date, recipient, direction, description) ==
    [amount |-> amount, date |-> date, recipient |-> recipient,
     direction |-> direction, description |-> description]

\* a related_bank_transaction entry naming bank transaction b on account a
Rel(b, a) == <<[id |-> b, bankaccount_id |-> a]>>

---------------------------------------------------------------------------
(* received_transaction_matcher.py                                         *)

R_PTDomain ==
    { PT("received", 100, 10, 9, 1, <<>>, USER_ID),
      PT("received", 100, 11, 9, 1, <<>>, OTHER_USER),
      PT("received", 100, 10, 9, 1, Rel(1, 1), OTHER_USER),
      PT("received", 100, 10, 9, 1, Rel(NBT + 1, 1), OTHER_USER), \* not fetched
      PT("returned", 100, 10, 1, 9, <<>>, OTHER_USER) }

R_BTDomain ==
    { BT(-100, 10, 1, "deposit", 0),
      BT(-100, 11, 1, "deposit", 0),
      BT(-100, 10, 1, "deposit", 1),      \* already linked to platform transaction 1
      BT(-100, 10, 1, "deposit", 2),      \* already linked to platform transaction 2
      BT(-102, 10, 1, "deposit", 0),      \* outside the amount tolerance
      BT(-100, 10, 2, "deposit", 0) }     \* another bank account

R_CPDomain ==
    { CP(100, 20, USER_ID, "OUTGOING", <<"F", "u", "n", "d">>),
      CP(101, 22, USER_ID, "OUTGOING", <<"f", "u", "n", "d">>),
      CP(100, 20, OTHER_USER, "OUTGOING", <<"f", "u", "n", "d">>),
      CP(100, 20, USER_ID, "OUTGOING", <<"D", "e", "p", "o", "s", "i", "t">>) }

\* the filter without the test of the link field
R_filter_potential_bank_transactions_Unlinked(bts) ==
    SelectSeq(bts, LAMBDA bt : bt.amount < 0)

\* _filter_potential_bank_transactions
R_filter_potential_bank_transactions(bts) ==
    SelectSeq(bts, LAMBDA bt : bt.amount < 0 /\ bt.transaction_link = 0)

\* _preprocess_data: the received platform transactions
R_received_platform_transactions(pts) ==
    SelectSeq(pts, LAMBDA pt : pt.Transaction_Type = "received")

\* str.lower() of a text given as its sequence of characters
lower(text) ==
    LET upper == <<"A", "B", "C", "D", "E", "F", "G", "H", "I", "J", "K", "L", "M", "N", "O", "P", "Q", "R", "S", "T", "U", "V", "W", "X", "Y", "Z">>
        small == <<"a", "b", "c", "d", "e", "f", "g", "h", "i", "j", "k", "l", "m", "n", "o", "p", "q", "r", "s", "t", "u", "v", "w", "x", "y", "z">>
    IN  [ n \in 1..Len(text) |->
            IF \E k \in 1..26 : upper[k] = text[n]
            THEN small[CHOOSE k \in 1..26 : upper[k] = text[n]]
            ELSE text[n] ]

\* sub in text
Contains(text, sub) ==
    \E k \in 1..(Len(text) - Len(sub) + 1) : SubSeq(text, k, k + Len(sub) - 1) = sub

\* description check: the lowered description contains "fund", starts with
\* "f", or contains "initial deposit fee"
R_description_ok(description) ==
    LET d == lower(description)
    IN  \/ Contains(d, <<"f", "u", "n", "d">>)
        \/ (d # <<>> /\ d[1] = "f")
        \/ Contains(d, <<"i", "n", "i", "t", "i", "a", "l", " ", "d", "e", "p", "o", "s", "i", "t", " ", "f", "e", "e">>)

R_is_valid_checkbook_payment_for_received(cp) ==
    /\ cp.amount # 0
    /\ cp.recipient # 0
    /\ cp.direction = "OUTGOING"
    /\ R_description_ok(cp.description)

\* _preprocess_data: the valid checkbook payments
R_valid_checkbook_payments(cps) ==
    SelectSeq(cps, R_is_valid_checkbook_payment_for_received)

\* Amounts are Python floats. The float nearest to c cents differs from
\* c/100 by float_err(c) units of 2^-59 / 100 (IEEE 754 binary64, round to
\* nearest even); 0.01 itself is 12 units above 1/100.
float_err(c) ==
    CASE c = 0 -> 0
      [] c = 1 -> 12
      [] c = 2 -> 24
      [] c = 3 -> -64
      [] c = 5 -> 160
      [] c = 6 -> -128
      [] c = 7 -> 384
      [] c = 100 -> 0
      [] c = 101 -> 512
      [] c = 102 -> 1024
      [] c = 10000 -> 0
      [] c = 10001 -> 294912
      [] c = 10002 -> -229376

\* abs(x - y) <= 0.01 for the floats of x and y cents, x and y of one sign:
\* the difference of two floats one cent apart is exact, so it is
\* 1/100 + float_err(hi) - float_err(lo) and is compared with the float 0.01
float_diff_within_cent(x, y) ==
    LET hi == IF Abs(x) >= Abs(y) THEN Abs(x) ELSE Abs(y)
        lo == IF Abs(x) >= Abs(y) THEN Abs(y) ELSE Abs(x)
    IN  \/ x = y
        \/ /\ Abs(x - y) = 1
           /\ float_err(hi) - float_err(lo) <= float_err(1)

R_is_amount_match(platform_amount, bank_amount) ==
    float_diff_within_cent(Abs(platform_amount), Abs(bank_amount))

R_is_date_match(platform_date, bank_date) ==
    Abs(platform_date - bank_date) <= 9

R_is_bank_account_match(pt, bt) ==
    pt.to_bankaccount_id = bt.bankaccount_id

UsedCpIds(used) == { u[1] : u \in used }

\* _find_matching_checkbook_payment; NoRec stands for None
R_find_matching_checkbook_payment(cps, used, bt, pt, bypass_used_check) ==
    LET bank_amount == Abs(bt.amount)
        bank_date == bt.date * TicksPerDay
        platform_day == pt.Date
        ok(cp) == /\ (bypass_used_check \/ cp.id \notin UsedCpIds(used))
                  /\ cp.recipient = USER_ID
                  /\ cp.direction = "OUTGOING"
                  /\ Abs(bank_amount - cp.amount) <= 1
                  /\ R_description_ok(cp.description)
                  /\ cp.date # 0
                  /\ Abs(bank_date - cp.date) <= 9 * TicksPerDay
        matching_payments == SelectSeq(R_valid_checkbook_payments(cps), ok)
        payments_to_consider ==
            IF bypass_used_check THEN matching_payments
            ELSE SelectSeq(matching_payments,
                           LAMBDA cp : cp.id \notin UsedCpIds(used))
        same_date_payments ==
            SelectSeq(payments_to_consider,
                      LAMBDA cp : cp.date \div TicksPerDay = platform_day)
        diff(cp) == Abs(bank_date - cp.date)
    IN  IF matching_payments = <<>> THEN NoRec
        ELSE IF Len(matching_payments) = 1 THEN matching_payments[1]
        ELSE IF same_date_payments # <<>>
             THEN same_date_payments[MinIndex([n \in 1..Len(same_date_payments) |-> diff(same_date_payments[n])])]
        ELSE IF payments_to_consider # <<>>
             THEN payments_to_consider[MinIndex([n \in 1..Len(payments_to_consider) |-> diff(payments_to_consider[n])])]
        ELSE NoRec


\* the local set of that name in match_received_transactions: never written
matched_checkbook_payment_ids == {}

R_Match(pt, bt, cp, direct) ==
    [platform_transaction |-> pt.id, bank_transaction |-> bt.id,
     checkbook_payment |-> cp.id, is_direct_match |-> direct]

\* bank_transactions_by_id.get(id): the last record of that id, NoRec if none
BankById(bts, id) ==
    IF \E k \in 1..Len(bts) : bts[k].id = id
    THEN bts[CHOOSE k \in 1..Len(bts) :
                 bts[k].id = id /\ \A j \in (k + 1)..Len(bts) : bts[j].id # id]
    ELSE NoRec

\* Step 2 of match_received_transactions: the candidates of one platform
\* transaction, in the order of the potential bank transactions
R_matching_bank_transactions(pt, potential, cps, used, matchedBt) ==
    SelectSeq(potential, LAMBDA bt :
        /\ bt.id \notin matchedBt
        /\ R_is_amount_match(pt.Amount, bt.amount)
        /\ R_is_date_match(pt.Date, bt.date)
        /\ R_is_bank_account_match(pt, bt)
        /\ R_find_matching_checkbook_payment(cps, used, bt, pt, FALSE) # NoRec
        /\ R_find_matching_checkbook_payment(cps, used, bt, pt, FALSE).id
              \notin matched_checkbook_payment_ids)

\* exact date matches first, then the closest date; NoRec if no candidate
R_best_match(pt, cands) ==
    LET date_diff(bt) == Abs(pt.Date - bt.date)
        exact_date_matches == SelectSeq(cands, LAMBDA bt : date_diff(bt) = 0)
    IN  IF exact_date_matches # <<>>
        THEN exact_date_matches[MinIndex([n \in 1..Len(exact_date_matches) |-> date_diff(exact_date_matches[n])])]
        ELSE IF cands # <<>> THEN cands[MinIndex([n \in 1..Len(cands) |-> date_diff(cands[n])])]
        ELSE NoRec

\* _resolve_unmatched_duplicates: the groups with more than one member, in
\* the order of their first member
R_GroupKey(pt) == <<pt.Date, pt.Amount, pt.to_bankaccount_id>>

DuplicateGroups(pts, keys) ==
    LET firsts == { k \in 1..Len(pts) : \A j \in 1..(k - 1) : keys[j] # keys[k] }
        members(k) == { j \in 1..Len(pts) : keys[j] = keys[k] }
        group(k) == [ n \in 1..Cardinality(members(k)) |->
                        pts[CHOOSE j \in members(k) :
                               Cardinality({ h \in members(k) : h < j }) = n - 1] ]
        order == [ n \in 1..Cardinality(firsts) |->
                     CHOOSE k \in firsts :
                         Cardinality({ h \in firsts : h < k }) = n - 1 ]
        all == [ n \in 1..Len(order) |-> group(order[n]) ]
    IN  SelectSeq(all, LAMBDA g : Len(g) > 1)

R_candidate_pt(duplicate_pts, bt) ==
    LET player_added_pts ==
            SelectSeq(duplicate_pts, LAMBDA p : p.Added_By = USER_ID)
        diff(p) == Abs(p.Date - bt.date)
    IN  IF player_added_pts # <<>> THEN player_added_pts[1]
        ELSE duplicate_pts[MinIndex([n \in 1..Len(duplicate_pts) |-> diff(duplicate_pts[n])])]

R_EmptyResolution ==
    [new_matches |-> <<>>, pt_ids |-> {}, bt_ids |-> {}, cp_ids |-> {}]

RECURSIVE R_ResolveGroups(_, _, _, _, _, _)
R_ResolveGroups(groups, g, bt, cps, used, acc) ==
    IF g > Len(groups) THEN acc
    ELSE
      LET duplicate_pts == groups[g]
          ref_pt == duplicate_pts[1]
          candidate_pt == R_candidate_pt(duplicate_pts, bt)
          cp == R_find_matching_checkbook_payment(cps, used, bt, candidate_pt, FALSE)
      IN  IF \E k \in 1..Len(duplicate_pts) : duplicate_pts[k].id \in acc.pt_ids
          THEN R_ResolveGroups(groups, g + 1, bt, cps, used, acc)
          ELSE IF /\ R_is_amount_match(ref_pt.Amount, bt.amount)
                  /\ R_is_date_match(ref_pt.Date, bt.date)
                  /\ R_is_bank_account_match(ref_pt, bt)
                  /\ cp # NoRec
                  /\ cp.id \notin UsedCpIds(used)
                  /\ cp.id \notin UsedCpIds(acc.cp_ids)
          THEN [new_matches |-> Append(acc.new_matches,
                                       R_Match(candidate_pt, bt, cp, FALSE)),
                pt_ids |-> acc.pt_ids \cup { p.id : p \in Range(duplicate_pts) },
                bt_ids |-> acc.bt_ids \cup {bt.id},
                cp_ids |-> acc.cp_ids \cup {<<cp.id, candidate_pt.id>>}]
          ELSE R_ResolveGroups(groups, g + 1, bt, cps, used, acc)

RECURSIVE R_ResolveBts(_, _, _, _, _, _)
R_ResolveBts(groups, available_bts, b, cps, used, acc) ==
    IF b > Len(available_bts) THEN acc
    ELSE R_ResolveBts(groups, available_bts, b + 1, cps, used,
                      R_ResolveGroups(groups, 1, available_bts[b], cps, used, acc))

R_resolve_unmatched_duplicates(unmatched_pts, unmatched_bts, cps, used) ==
    LET groups == DuplicateGroups(unmatched_pts,
                      [n \in 1..Len(unmatched_pts) |-> R_GroupKey(unmatched_pts[n])])
    IN  IF groups = <<>> THEN R_EmptyResolution
        ELSE R_ResolveBts(groups, unmatched_bts, 1, cps, used, R_EmptyResolution)

Unmatched(s, matched) == SelectSeq(s, LAMBDA x : x.id \notin matched)

Ids(s) == [ k \in 1..Len(s) |-> s[k].id ]


R_rpts == R_received_platform_transactions(platform_transactions)
R_potential == R_filter_potential_bank_transactions(bank_transactions)

R_Init ==
    /\ flavor = "received"
    /\ dry_run = FALSE
    /\ pc = "direct"
    /\ i = 1
    /\ platform_transactions \in { WithIds(f) : f \in [1..NPT -> R_PTDomain] }
    /\ bank_transactions \in { WithIds(f) : f \in [1..NBT -> R_BTDomain] }
    /\ checkbook_payments \in { WithIds(f) : f \in [1..NCP -> R_CPDomain] }
    /\ scraped_transactions = <<>>
    /\ matches = <<>>
    /\ three_way_matches = <<>>
    /\ matched_bank_transaction_ids = {}
    /\ matched_platform_transaction_ids = {}
    /\ used_checkbook_payment_ids = {}
    /\ unmatched_info = <<>>
    /\ candidates = NoCandidates
    /\ commands = <<>>
    /\ exec_result = <<>>
    /\ findings = <<>>
    /\ predicate_call = NoCall
    /\ previous_matches = <<>>

inputs == <<flavor, dry_run, platform_transactions, bank_transactions,
            checkbook_payments, scraped_transactions>>

\* what only the transfer flavors and the executors write
transfer_state == <<three_way_matches, candidates, commands, exec_result>>

\* a bug: the payment is never recorded as used
ClaimCheckbookPayment_Dropped(used, cp_id, pt_id) == used

\* self.used_checkbook_payment_ids[cp_id] = pt_id
ClaimCheckbookPayment(used, cp_id, pt_id) ==
    { u \in used : u[1] # cp_id } \cup {<<cp_id, pt_id>>}

\* Step 1, one platform transaction: honour a pre-existing link
R_DirectMatch ==
    /\ flavor = "received" /\ pc = "direct" /\ i <= Len(R_rpts)
    /\ LET pt == R_rpts[i]
           related_bt_info == pt.related_bank_transaction
           bank_transaction == BankById(bank_transactions, related_bt_info[1].id)
       IN  IF related_bt_info = <<>>
           THEN UNCHANGED <<matches, matched_bank_transaction_ids,
                            matched_platform_transaction_ids>>
           ELSE /\ matched_platform_transaction_ids' =
                       matched_platform_transaction_ids \cup {pt.id}
                /\ IF bank_transaction = NoRec \/ bank_transaction.transaction_link # 0
                   THEN UNCHANGED <<matches, matched_bank_transaction_ids>>
                   ELSE /\ matches' = Append(matches,
                                R_Match(pt, bank_transaction, NoRec, TRUE))
                        /\ matched_bank_transaction_ids' =
                               matched_bank_transaction_ids \cup {bank_transaction.id}
    /\ i' = i + 1
    /\ UNCHANGED <<inputs, findings, predicate_call, previous_matches, pc, transfer_state, used_checkbook_payment_ids,
                   unmatched_info>>

R_DirectDone ==
    /\ flavor = "received" /\ pc = "direct" /\ i > Len(R_rpts)
    /\ pc' = "discover"
    /\ i' = 1
    /\ UNCHANGED <<inputs, findings, predicate_call, previous_matches, matches, transfer_state, matched_bank_transaction_ids,
                   matched_platform_transaction_ids, used_checkbook_payment_ids,
                   unmatched_info>>

\* Step 2, one platform transaction: fresh discovery
R_Discover ==
    /\ flavor = "received" /\ pc = "discover" /\ i <= Len(R_rpts)
    /\ LET pt == R_rpts[i]
           cands == R_matching_bank_transactions(pt, R_potential, checkbook_payments,
                        used_checkbook_payment_ids, matched_bank_transaction_ids)
           bt == R_best_match(pt, cands)
           checkbook_payment == R_find_matching_checkbook_payment(
                        checkbook_payments, used_checkbook_payment_ids, bt, pt, FALSE)
       IN  IF \/ pt.id \in matched_platform_transaction_ids
              \/ bt = NoRec
              \/ checkbook_payment.id \in UsedCpIds(used_checkbook_payment_ids)
           THEN UNCHANGED <<matches, matched_bank_transaction_ids,
                            matched_platform_transaction_ids,
                            used_checkbook_payment_ids>>
           ELSE /\ matches' = Append(matches, R_Match(pt, bt, checkbook_payment, FALSE))
                /\ matched_bank_transaction_ids' =
                       matched_bank_transaction_ids \cup {bt.id}
                /\ matched_platform_transaction_ids' =
                       matched_platform_transaction_ids \cup {pt.id}
                /\ used_checkbook_payment_ids' =
                       ClaimCheckbookPayment(used_checkbook_payment_ids,
                                             checkbook_payment.id, pt.id)
    /\ i' = i + 1
    /\ UNCHANGED <<inputs, findings, predicate_call, previous_matches, pc, transfer_state, unmatched_info>>

R_DiscoverDone ==
    /\ flavor = "received" /\ pc = "discover" /\ i > Len(R_rpts)
    /\ pc' = "resolve"
    /\ UNCHANGED <<inputs, findings, predicate_call, previous_matches, i, matches, transfer_state,
                   matched_bank_transaction_ids, matched_platform_transaction_ids,
                   used_checkbook_payment_ids, unmatched_info>>

\* Step 3 and the result lists
R_ResolveDuplicates ==
    /\ flavor = "received" /\ pc = "resolve"
    /\ LET unmatched_pts == Unmatched(R_rpts, matched_platform_transaction_ids)
           unmatched_bts == Unmatched(R_potential, matched_bank_transaction_ids)
           res == IF unmatched_pts # <<>> /\ unmatched_bts # <<>>
                  THEN R_resolve_unmatched_duplicates(unmatched_pts, unmatched_bts,
                           checkbook_payments, used_checkbook_payment_ids)
                  ELSE R_EmptyResolution
       IN  /\ matches' = matches \o res.new_matches
           /\ matched_platform_transaction_ids' =
                  matched_platform_transaction_ids \cup res.pt_ids
           /\ matched_bank_transaction_ids' =
                  matched_bank_transaction_ids \cup res.bt_ids
           /\ used_checkbook_payment_ids' =
                  { u \in used_checkbook_payment_ids :
                        u[1] \notin UsedCpIds(res.cp_ids) } \cup res.cp_ids
           /\ unmatched_info' =
                  Ids(Unmatched(R_rpts, matched_platform_transaction_ids \cup res.pt_ids))
    /\ pc' = "done"
    /\ UNCHANGED <<inputs, findings, predicate_call, previous_matches, i, transfer_state>>

R_Next == R_DirectMatch \/ R_DirectDone \/ R_Discover \/ R_DiscoverDone
          \/ R_ResolveDuplicates

\* what a call of _find_matching_checkbook_payment that returned payment
\* cp_id for platform transaction pt_id leaves in used_checkbook_payment_ids:
\* the method only reads the map
used_after_find_Claimed(used, cp_id, pt_id) ==
    IF cp_id = 0 THEN used ELSE ClaimCheckbookPayment(used, cp_id, pt_id)

used_after_find(used, cp_id, pt_id) == used

\* investigate_unmatched_received: the bank transactions that pass the
\* amount, date and account checks for unmatched_pt
R_potential_bank_matches(unmatched_pt, potential) ==
    SelectSeq(potential, LAMBDA bt :
        /\ R_is_amount_match(unmatched_pt.Amount, bt.amount)
        /\ R_is_date_match(unmatched_pt.Date, bt.date)
        /\ R_is_bank_account_match(unmatched_pt, bt))

REASON_NO_BANK == "No suitable Bank Transaction found"
REASON_CP_USED == "A valid checkbook payment was found, but it was already used"
REASON_NO_CP == "no valid Checkbook Payment could be matched"

\* the loop over potential_bank_matches[b..]: the search bypasses the used
\* check and stops at the first payment found in used_checkbook_payment_ids
RECURSIVE R_investigate_bank_matches(_, _, _, _, _)
R_investigate_bank_matches(unmatched_pt, pot, b, cps, used) ==
    IF b > Len(pot) THEN [used |-> used, reason |-> REASON_NO_CP]
    ELSE
      LET checkbook_payment ==
              R_find_matching_checkbook_payment(cps, used, pot[b], unmatched_pt, TRUE)
          after == used_after_find(used, checkbook_payment.id, unmatched_pt.id)
      IN  IF checkbook_payment # NoRec /\ checkbook_payment.id \in UsedCpIds(after)
          THEN [used |-> after, reason |-> REASON_CP_USED]
          ELSE R_investigate_bank_matches(unmatched_pt, pot, b + 1, cps, after)

\* the loop over unmatched_betting_pts[k..]; acc holds the findings so far
\* and the used map
RECURSIVE R_investigate_all(_, _, _, _, _)
R_investigate_all(unmatched_pts, k, potential, cps, acc) ==
    IF k > Len(unmatched_pts) THEN acc
    ELSE
      LET unmatched_pt == unmatched_pts[k]
          pot == R_potential_bank_matches(unmatched_pt, potential)
          res == IF pot = <<>> THEN [used |-> acc.used, reason |-> REASON_NO_BANK]
                 ELSE R_investigate_bank_matches(unmatched_pt, pot, 1, cps, acc.used)
      IN  R_investigate_all(unmatched_pts, k + 1, potential, cps,
              [findings |-> Append(acc.findings,
                                   [platform_transaction_id |-> unmatched_pt.id,
                                    reason_for_no_match |-> res.reason]),
               used |-> res.used])

\* investigate_unmatched_received, called with the matcher and its results
\* once match_received_transactions has returned; every received platform
\* transaction of the domain goes to a betting bank account
R_Investigate ==
    /\ flavor = "received" /\ pc = "done"
    /\ LET unmatched_betting_pts ==
               SelectSeq(platform_transactions, LAMBDA pt :
                   /\ pt.id \in Range(unmatched_info)
                   /\ pt.related_bank_transaction = <<>>)
           res == R_investigate_all(unmatched_betting_pts, 1, R_potential,
                      checkbook_payments,
                      [findings |-> <<>>, used |-> used_checkbook_payment_ids])
       IN  /\ findings' = res.findings
           /\ used_checkbook_payment_ids' = res.used
    /\ pc' = "investigated"
    /\ UNCHANGED <<inputs, predicate_call, previous_matches, i, matches, transfer_state,
                   matched_bank_transaction_ids, matched_platform_transaction_ids,
                   unmatched_info>>

\* a received run followed by the diagnostic pass
Spec_Investigate == R_Init /\ [][R_Next \/ R_Investigate]_vars

\* Step 2 of match_received_transactions as one pass over the platform
\* transactions pts[k..], from the result lists and used sets in acc
RECURSIVE R_discover_all(_, _, _, _, _)
R_discover_all(pts, k, potential, cps, acc) ==
    IF k > Len(pts) THEN acc
    ELSE
      LET pt == pts[k]
          cands == R_matching_bank_transactions(pt, potential, cps, acc.used, acc.bt_ids)
          bt == R_best_match(pt, cands)
          checkbook_payment ==
              R_find_matching_checkbook_payment(cps, acc.used, bt, pt, FALSE)
      IN  IF \/ pt.id \in acc.pt_ids
             \/ bt = NoRec
             \/ checkbook_payment.id \in UsedCpIds(acc.used)
          THEN R_discover_all(pts, k + 1, potential, cps, acc)
          ELSE R_discover_all(pts, k + 1, potential, cps,
                   [matches |-> Append(acc.matches,
                                       R_Match(pt, bt, checkbook_payment, FALSE)),
                    bt_ids |-> acc.bt_ids \cup {bt.id},
                    pt_ids |-> acc.pt_ids \cup {pt.id},
                    used |-> ClaimCheckbookPayment(acc.used, checkbook_payment.id,
                                                   pt.id)])

Spec_R == R_Init /\ [][R_Next]_vars

---------------------------------------------------------------------------
(* returned_transaction_matcher.py                                         *)

\* a bank transaction name is modelled by the keyword it contains, or by a
\* name that contains none
RETURNED_KEYWORDS == {"checkbook", "reel ventures", "rv enhanced wall", "individual"}

Ret_PTDomain ==
    { PT("returned", 100, 10, 1, 9, <<>>, USER_ID),
      PT("returned", 100, 11, 1, 9, <<>>, OTHER_USER),
      PT("returned", 100, 10, 1, 9, Rel(1, 1), OTHER_USER),
      PT("returned", 100, 10, 1, 9, Rel(2, 1), OTHER_USER),
      PT("returned", 100, 10, 1, 9, Rel(NBT + 1, 1), OTHER_USER), \* not fetched
      PT("received", 100, 10, 9, 1, <<>>, OTHER_USER) }

Ret_BTDomain ==
    { BT(100, 10, 1, "checkbook", 0),
      BT(100, 11, 1, "individual", 0),
      BT(100, 10, 1, "checkbook", 1),     \* already linked to platform transaction 1
      BT(100, 10, 1, "checkbook", 2),     \* already linked to platform transaction 2
      BT(101, 10, 1, "checkbook", 0),     \* within the amount tolerance
      BT(102, 10, 1, "checkbook", 0),     \* outside the amount tolerance
      BT(100, 10, 1, "deposit", 0),       \* no keyword in the name
      BT(-100, 10, 1, "checkbook", 0),    \* wrong sign
      BT(100, 16, 1, "checkbook", 0),     \* outside the date window
      BT(100, 10, 2, "checkbook", 0) }    \* another bank account

\* _preprocess_data
Ret_returned_platform_transactions(pts) ==
    SelectSeq(pts, LAMBDA pt : pt.Transaction_Type = "returned")

Ret_potential_bank_transactions(bts) ==
    SelectSeq(bts, LAMBDA bt : /\ bt.transaction_link = 0
                               /\ bt.amount > 0
                               /\ bt.name \in RETURNED_KEYWORDS)

Ret_is_amount_match(platform_amount, bank_amount) ==
    float_diff_within_cent(platform_amount, bank_amount)

Ret_is_date_match(platform_date, bank_date) ==
    Abs(platform_date - bank_date) <= 5

Ret_is_bank_account_match(pt, bt) ==
    pt.from_bankaccount_id = bt.bankaccount_id

Ret_Match(pt, bt, direct) ==
    [platform_transaction |-> pt.id, bank_transaction |-> bt.id,
     is_direct_match |-> direct]

\* a fresh discovery that accepts a bank transaction of the same day only
Ret_first_match_SameDay(pt, potential, matchedBt) ==
    LET ok == SelectSeq(potential, LAMBDA bt :
                  /\ bt.id \notin matchedBt
                  /\ Ret_is_amount_match(pt.Amount, bt.amount)
                  /\ pt.Date = bt.date
                  /\ Ret_is_bank_account_match(pt, bt))
    IN  IF ok = <<>> THEN NoRec ELSE ok[1]

\* Step 2: the first potential bank transaction that passes every criterion
Ret_first_match(pt, potential, matchedBt) ==
    LET ok == SelectSeq(potential, LAMBDA bt :
                  /\ bt.id \notin matchedBt
                  /\ Ret_is_amount_match(pt.Amount, bt.amount)
                  /\ Ret_is_date_match(pt.Date, bt.date)
                  /\ Ret_is_bank_account_match(pt, bt))
    IN  IF ok = <<>> THEN NoRec ELSE ok[1]

Ret_GroupKey(pt) == <<pt.Date, pt.Amount, pt.from_bankaccount_id>>

Ret_candidate_pt(duplicate_pts, bt, player_id) ==
    LET player_added_pts ==
            SelectSeq(duplicate_pts, LAMBDA p : p.Added_By = player_id)
        diff(p) == Abs(p.Date - bt.date)
    IN  IF player_id # 0 /\ player_added_pts # <<>> THEN player_added_pts[1]
        ELSE duplicate_pts[MinIndex([n \in 1..Len(duplicate_pts) |-> diff(duplicate_pts[n])])]

Ret_EmptyResolution == [new_matches |-> <<>>, pt_ids |-> {}, bt_ids |-> {}]

RECURSIVE Ret_ResolveGroups(_, _, _, _, _)
Ret_ResolveGroups(groups, g, bt, player_id, acc) ==
    IF g > Len(groups) THEN acc
    ELSE
      LET duplicate_pts == groups[g]
          ref_pt == duplicate_pts[1]
          candidate_pt == Ret_candidate_pt(duplicate_pts, bt, player_id)
      IN  IF \E k \in 1..Len(duplicate_pts) : duplicate_pts[k].id \in acc.pt_ids
          THEN Ret_ResolveGroups(groups, g + 1, bt, player_id, acc)
          ELSE IF /\ Ret_is_amount_match(ref_pt.Amount, bt.amount)
                  /\ Ret_is_date_match(ref_pt.Date, bt.date)
                  /\ Ret_is_bank_account_match(ref_pt, bt)
          THEN [new_matches |-> Append(acc.new_matches,
                                       Ret_Match(candidate_pt, bt, FALSE)),
                pt_ids |-> acc.pt_ids \cup { p.id : p \in Range(duplicate_pts) },
                bt_ids |-> acc.bt_ids \cup {bt.id}]
          ELSE Ret_ResolveGroups(groups, g + 1, bt, player_id, acc)

RECURSIVE Ret_ResolveBts(_, _, _, _, _)
Ret_ResolveBts(groups, available_bts, b, player_id, acc) ==
    IF b > Len(available_bts) THEN acc
    ELSE Ret_ResolveBts(groups, available_bts, b + 1, player_id,
                        Ret_ResolveGroups(groups, 1, available_bts[b], player_id, acc))

Ret_resolve_unmatched_duplicates(unmatched_pts, unmatched_bts, all_pts) ==
    LET groups == DuplicateGroups(unmatched_pts,
                      [n \in 1..Len(unmatched_pts) |-> Ret_GroupKey(unmatched_pts[n])])
        player_id == IF all_pts # <<>> THEN all_pts[1].player_id ELSE 0
    IN  IF groups = <<>> THEN Ret_EmptyResolution
        ELSE Ret_ResolveBts(groups, unmatched_bts, 1, player_id, Ret_EmptyResolution)

Ret_rpts == Ret_returned_platform_transactions(platform_transactions)
Ret_potential == Ret_potential_bank_transactions(bank_transactions)

Ret_Init ==
    /\ flavor = "returned"
    /\ dry_run = FALSE
    /\ pc = "direct"
    /\ i = 1
    /\ platform_transactions \in { WithIds(f) : f \in [1..NPT -> Ret_PTDomain] }
    /\ bank_transactions \in { WithIds(f) : f \in [1..NBT -> Ret_BTDomain] }
    /\ checkbook_payments = <<>>
    /\ scraped_transactions = <<>>
    /\ matches = <<>>
    /\ three_way_matches = <<>>
    /\ matched_bank_transaction_ids = {}
    /\ matched_platform_transaction_ids = {}
    /\ used_checkbook_payment_ids = {}
    /\ unmatched_info = <<>>
    /\ candidates = NoCandidates
    /\ commands = <<>>
    /\ exec_result = <<>>
    /\ findings = <<>>
    /\ predicate_call = NoCall
    /\ previous_matches = <<>>

\* a bug: Step 1 does not mark the linked platform transaction as processed
Ret_DirectMatch_Unmarked ==
    /\ flavor = "returned" /\ pc = "direct" /\ i <= Len(Ret_rpts)
    /\ LET pt == Ret_rpts[i]
           related_bt_info == pt.related_bank_transaction
           bank_transaction == BankById(bank_transactions, related_bt_info[1].id)
       IN  IF \/ related_bt_info = <<>>
              \/ bank_transaction = NoRec
              \/ bank_transaction.transaction_link # 0
           THEN UNCHANGED <<matches, matched_bank_transaction_ids>>
           ELSE /\ matches' = Append(matches, Ret_Match(pt, bank_transaction, TRUE))
                /\ matched_bank_transaction_ids' =
                       matched_bank_transaction_ids \cup {bank_transaction.id}
    /\ i' = i + 1
    /\ UNCHANGED <<inputs, findings, predicate_call, previous_matches, pc, transfer_state, matched_platform_transaction_ids,
                   used_checkbook_payment_ids, unmatched_info>>

\* Step 1, one platform transaction: honour a pre-existing link
Ret_DirectMatch ==
    /\ flavor = "returned" /\ pc = "direct" /\ i <= Len(Ret_rpts)
    /\ LET pt == Ret_rpts[i]
           related_bt_info == pt.related_bank_transaction
           bank_transaction == BankById(bank_transactions, related_bt_info[1].id)
       IN  IF related_bt_info = <<>>
           THEN UNCHANGED <<matches, matched_bank_transaction_ids,
                            matched_platform_transaction_ids>>
           ELSE /\ matched_platform_transaction_ids' =
                       matched_platform_transaction_ids \cup {pt.id}
                /\ IF bank_transaction = NoRec \/ bank_transaction.transaction_link # 0
                   THEN UNCHANGED <<matches, matched_bank_transaction_ids>>
                   ELSE /\ matches' = Append(matches,
                                Ret_Match(pt, bank_transaction, TRUE))
                        /\ matched_bank_transaction_ids' =
                               matched_bank_transaction_ids \cup {bank_transaction.id}
    /\ i' = i + 1
    /\ UNCHANGED <<inputs, findings, predicate_call, previous_matches, pc, transfer_state, used_checkbook_payment_ids,
                   unmatched_info>>

Ret_DirectDone ==
    /\ flavor = "returned" /\ pc = "direct" /\ i > Len(Ret_rpts)
    /\ pc' = "discover"
    /\ i' = 1
    /\ UNCHANGED <<inputs, findings, predicate_call, previous_matches, matches, transfer_state, matched_bank_transaction_ids,
                   matched_platform_transaction_ids, used_checkbook_payment_ids,
                   unmatched_info>>

\* Step 2, one platform transaction: fresh discovery
Ret_Discover ==
    /\ flavor = "returned" /\ pc = "discover" /\ i <= Len(Ret_rpts)
    /\ LET pt == Ret_rpts[i]
           bt == Ret_first_match(pt, Ret_potential, matched_bank_transaction_ids)
       IN  IF pt.id \in matched_platform_transaction_ids \/ bt = NoRec
           THEN UNCHANGED <<matches, matched_bank_transaction_ids,
                            matched_platform_transaction_ids>>
           ELSE /\ matches' = Append(matches, Ret_Match(pt, bt, FALSE))
                /\ matched_bank_transaction_ids' =
                       matched_bank_transaction_ids \cup {bt.id}
                /\ matched_platform_transaction_ids' =
                       matched_platform_transaction_ids \cup {pt.id}
    /\ i' = i + 1
    /\ UNCHANGED <<inputs, findings, predicate_call, previous_matches, pc, transfer_state, used_checkbook_payment_ids,
                   unmatched_info>>

Ret_DiscoverDone ==
    /\ flavor = "returned" /\ pc = "discover" /\ i > Len(Ret_rpts)
    /\ pc' = "resolve"
    /\ UNCHANGED <<inputs, findings, predicate_call, previous_matches, i, matches, transfer_state,
                   matched_bank_transaction_ids, matched_platform_transaction_ids,
                   used_checkbook_payment_ids, unmatched_info>>

\* Step 3 and the result lists
Ret_ResolveDuplicates ==
    /\ flavor = "returned" /\ pc = "resolve"
    /\ LET unmatched_pts == Unmatched(Ret_rpts, matched_platform_transaction_ids)
           unmatched_bts == Unmatched(Ret_potential, matched_bank_transaction_ids)
           res == IF unmatched_pts # <<>> /\ unmatched_bts # <<>>
                  THEN Ret_resolve_unmatched_duplicates(unmatched_pts, unmatched_bts,
                           platform_transactions)
                  ELSE Ret_EmptyResolution
       IN  /\ matches' = matches \o res.new_matches
           /\ matched_platform_transaction_ids' =
                  matched_platform_transaction_ids \cup res.pt_ids
           /\ matched_bank_transaction_ids' =
                  matched_bank_transaction_ids \cup res.bt_ids
           /\ unmatched_info' =
                  Ids(Unmatched(Ret_rpts, matched_platform_transaction_ids \cup res.pt_ids))
    /\ pc' = "done"
    /\ UNCHANGED <<inputs, findings, predicate_call, previous_matches, i, transfer_state, used_checkbook_payment_ids>>

Ret_Next == Ret_DirectMatch \/ Ret_DirectDone \/ Ret_Discover \/ Ret_DiscoverDone
            \/ Ret_ResolveDuplicates

\* Step 2 of match_returned_transactions as one pass over the platform
\* transactions pts[k..], from the result lists in acc
RECURSIVE Ret_discover_all(_, _, _, _)
Ret_discover_all(pts, k, potential, acc) ==
    IF k > Len(pts) THEN acc
    ELSE
      LET pt == pts[k]
          bt == Ret_first_match(pt, potential, acc.bt_ids)
      IN  IF pt.id \in acc.pt_ids \/ bt = NoRec
          THEN Ret_discover_all(pts, k + 1, potential, acc)
          ELSE Ret_discover_all(pts, k + 1, potential,
                   [matches |-> Append(acc.matches, Ret_Match(pt, bt, FALSE)),
                    bt_ids |-> acc.bt_ids \cup {bt.id},
                    pt_ids |-> acc.pt_ids \cup {pt.id},
                    used |-> acc.used])

\* a received run or a returned run
Spec_RR ==
    /\ R_Init \/ Ret_Init
    /\ [][R_Next \/ Ret_Next]_vars

---------------------------------------------------------------------------
(* Records of the transfer flavors.  A bank transaction carries the link   *)
(* field these scripts read (linked_transaction) and its external          *)
(* reference transaction_id; a related_bank_transaction entry carries the  *)
(* id of its bankaccount object; a scraped line carries Gross, Net, Type   *)
(* and Transaction_Date.                                                   *)

TPT(amount, date, fromAcct, toAcct, related, fromType, toType) ==
    [Transaction_Type |-> "transfer", Amount |-> amount, Date |-> date,
     from_bankaccount_id |-> fromAcct, to_bankaccount_id |-> toAcct,
     from_Account_Type |-> fromType, to_Account_Type |-> toType,
     From_Account |-> 100 + fromAcct, To_Account |-> 100 + toAcct,
     related_bank_transaction |-> related]

TBT(amount, date, acct, name, link) ==
    [amount |-> amount, date |-> date, bankaccount_id |-> acct, name |-> name,
     linked_transaction |-> link]

ST(gross, net, type, date) ==
    [Gross |-> gross, Net |-> net, Type |-> type, Transaction_Date |-> date]

\* the fetched bank list: ids by position, external references beside them
WithRefs(f) == [ k \in DOMAIN f |-> [id |-> k, transaction_id |-> 1000 + k] @@ f[k] ]

\* list.sort(key=date): a stable insertion sort
RECURSIVE SortByDate(_)
SortByDate(s) ==
    IF s = <<>> THEN <<>>
    ELSE LET rest == SortByDate(SubSeq(s, 1, Len(s) - 1))
             x == s[Len(s)]
             before == SelectSeq(rest, LAMBDA y : y.Date <= x.Date)
             after == SelectSeq(rest, LAMBDA y : y.Date > x.Date)
         IN  before \o <<x>> \o after

\* how many related bank transactions sit on the given bank account
RelatedCount(pt, account_id) ==
    Cardinality({ k \in 1..Len(pt.related_bank_transaction) :
                    /\ pt.related_bank_transaction[k].bankaccount_id # 0
                    /\ pt.related_bank_transaction[k].bankaccount_id = account_id })

SimpleMatch(pt, bt) == [platform_transaction |-> pt.id, bank_transaction |-> bt.id]

---------------------------------------------------------------------------
(* transfer_matcher.py: Betting Bank -> Betting PayPal                     *)

\* a bank transaction name is modelled by the keyword pattern it matches
T_BANK_TRANSFER_NAMES == {"paypal transfer", "paypal inst xfer", "money transfer authorized"}
T_PAYPAL_NAMES == {"money transfer from"}

T_PTDomain ==
    { TPT(100, 10, 1, 2, <<>>, "betting bank account", "betting paypal account"),
      TPT(100, 9, 1, 2, <<>>, "betting bank account", "betting paypal account"),
      TPT(100, 10, 1, 1, <<>>, "betting bank account", "betting paypal account"),
      TPT(100, 10, 1, 2, Rel(9, 1), "betting bank account", "betting paypal account"),
      TPT(100, 10, 1, 2, <<>>, "betting paypal account", "betting bank account") }

T_BTDomain ==
    { TBT(100, 10, 1, "paypal transfer", 0),
      TBT(-100, 10, 2, "money transfer from", 0),
      TBT(-100, 10, 1, "money transfer from", 0),   \* debit on the source account
      TBT(100, 10, 1, "paypal transfer", 1),        \* already linked
      TBT(-100, 10, 2, "money transfer from", 1),   \* already linked
      TBT(100, 10, 1, "deposit", 0),                \* no keyword
      TBT(100, 18, 1, "paypal transfer", 0) }       \* outside the date window

\* _preprocess_data
T_platform_transactions(pts) ==
    SortByDate(SelectSeq(pts, LAMBDA pt :
        /\ pt.Transaction_Type = "transfer"
        /\ Len(pt.related_bank_transaction) < 2
        /\ pt.from_Account_Type = "betting bank account"
        /\ pt.to_Account_Type = "betting paypal account"))

\* bank_transactions_by_account.get(account_id, [])
T_bank_transactions_by_account(bts, account_id) ==
    SelectSeq(bts, LAMBDA bt : /\ bt.linked_transaction = 0
                               /\ bt.bankaccount_id # 0
                               /\ bt.bankaccount_id = account_id)

\* Step 1: the positive (credit) candidate on the 'from' account
T_positive_match_candidate(pt, bts, matched_bt_ids) ==
    IF RelatedCount(pt, pt.from_bankaccount_id) # 0 THEN NoRec
    ELSE FirstOr(SelectSeq(
             T_bank_transactions_by_account(bts, pt.from_bankaccount_id),
             LAMBDA bt : /\ bt.id \notin matched_bt_ids
                         /\ bt.amount > 0
                         /\ bt.amount = pt.Amount
                         /\ Abs(bt.date - pt.Date) <= 7
                         /\ bt.name \in T_BANK_TRANSFER_NAMES))

\* Step 2: the negative (debit) candidate on the 'to' account
T_negative_match_candidate(pt, bts, matched_bt_ids, positive) ==
    IF RelatedCount(pt, pt.to_bankaccount_id) # 0 THEN NoRec
    ELSE FirstOr(SelectSeq(
             T_bank_transactions_by_account(bts, pt.to_bankaccount_id),
             LAMBDA bt : /\ bt.id \notin matched_bt_ids
                         /\ bt.id # positive.id
                         /\ bt.amount < 0
                         /\ bt.amount = -pt.Amount
                         /\ Abs(bt.date - pt.Date) <= 7
                         /\ bt.name \in T_PAYPAL_NAMES))

\* Step 3: both candidates on one bank account id discard the negative one
T_validated_negative(positive, negative) ==
    IF /\ positive # NoRec /\ negative # NoRec
       /\ positive.bankaccount_id = negative.bankaccount_id
    THEN NoRec ELSE negative

T_pts == T_platform_transactions(platform_transactions)

T_Init ==
    /\ flavor = "transfer"
    /\ dry_run = FALSE
    /\ pc = "match"
    /\ i = 1
    /\ platform_transactions \in { WithIds(f) : f \in [1..NPT -> T_PTDomain] }
    /\ bank_transactions \in { WithRefs(f) : f \in [1..NBT -> T_BTDomain] }
    /\ checkbook_payments = <<>>
    /\ scraped_transactions = <<>>
    /\ matches = <<>>
    /\ three_way_matches = <<>>
    /\ matched_bank_transaction_ids = {}
    /\ matched_platform_transaction_ids = {}
    /\ used_checkbook_payment_ids = {}
    /\ unmatched_info = <<>>
    /\ candidates = NoCandidates
    /\ commands = <<>>
    /\ exec_result = <<>>
    /\ findings = <<>>
    /\ predicate_call = NoCall
    /\ previous_matches = <<>>

\* one iteration of the loop of match_transactions
T_MatchOne ==
    /\ flavor = "transfer" /\ pc = "match" /\ i <= Len(T_pts)
    /\ LET pt == T_pts[i]
           positive == T_positive_match_candidate(pt, bank_transactions,
                           matched_bank_transaction_ids)
           found_negative == T_negative_match_candidate(pt, bank_transactions,
                           matched_bank_transaction_ids, positive)
           negative == T_validated_negative(positive, found_negative)
           new == (IF positive # NoRec THEN <<SimpleMatch(pt, positive)>> ELSE <<>>)
                  \o (IF negative # NoRec THEN <<SimpleMatch(pt, negative)>> ELSE <<>>)
       IN  /\ matches' = matches \o new
           /\ matched_bank_transaction_ids' =
                  matched_bank_transaction_ids
                  \cup ({positive.id, negative.id} \ {0})
           /\ unmatched_info' =
                  IF /\ new = <<>>
                     /\ RelatedCount(pt, pt.from_bankaccount_id) = 0
                     /\ RelatedCount(pt, pt.to_bankaccount_id) = 0
                  THEN Append(unmatched_info, pt.id)
                  ELSE unmatched_info
           /\ candidates' = [pt |-> pt.id, source |-> positive.id,
                             dest |-> found_negative.id]
    /\ i' = i + 1
    /\ UNCHANGED <<inputs, findings, predicate_call, previous_matches, pc, three_way_matches, matched_platform_transaction_ids,
                   used_checkbook_payment_ids, commands, exec_result>>

T_Done ==
    /\ flavor = "transfer" /\ pc = "match" /\ i > Len(T_pts)
    /\ pc' = "done"
    /\ UNCHANGED <<inputs, findings, predicate_call, previous_matches, i, matches, transfer_state, matched_bank_transaction_ids,
                   matched_platform_transaction_ids, used_checkbook_payment_ids,
                   unmatched_info>>

T_Next == T_MatchOne \/ T_Done

---------------------------------------------------------------------------
(* paypal_to_bank_matcher.py and run_transfer_bettingpaypal_matcher.py:    *)
(* Betting PayPal -> Betting Bank, with the fee-aware three-way match      *)

NST == 1        \* scraped statement lines fetched per run

PB_PAYPAL_NAMES == {"money transfer to"}
PB_BANK_TRANSFER_NAMES == {"paypal transfer", "money transfer authorized"}

PB_PTDomain ==
    { TPT(500, 10, 1, 2, <<>>, "betting paypal account", "betting bank account"),
      TPT(485, 9, 1, 2, <<>>, "betting paypal account", "betting bank account"),
      TPT(500, 10, 1, 1, <<>>, "betting paypal account", "betting bank account"),
      TPT(500, 10, 1, 2, Rel(9, 1), "betting paypal account", "betting bank account"),
      TPT(500, 10, 2, 1, <<>>, "betting bank account", "betting paypal account") }

PB_BTDomain ==
    { TBT(500, 10, 1, "money transfer to", 0),
      TBT(-485, 10, 2, "paypal transfer", 0),
      TBT(-500, 10, 2, "paypal transfer", 0),
      TBT(-499, 10, 2, "paypal transfer", 0),
      TBT(-515, 10, 2, "paypal transfer", 0),
      TBT(-485, 10, 1, "paypal transfer", 0),     \* net deposit on the PayPal account
      TBT(-500, 10, 1, "paypal transfer", 0),     \* debit on the PayPal account
      TBT(500, 10, 1, "money transfer to", 1),    \* already linked
      TBT(-485, 10, 2, "paypal transfer", 1) }    \* already linked

\* scraped lines carry negative values for outgoing transfers
PB_STDomain ==
    { ST(-500, -485, "transfer_sent", 10),
      ST(-500, -499, "transfer_sent", 10),    \* gross - net = 0.01
      ST(-500, -500, "transfer_sent", 10),    \* no fee
      ST(-500, -515, "transfer_sent", 10),    \* net above gross
      ST(-500, -485, "payment", 10) }

\* _preprocess_data
P_platform_transactions(pts) ==
    SortByDate(SelectSeq(pts, LAMBDA pt :
        /\ pt.Transaction_Type = "transfer"
        /\ Len(pt.related_bank_transaction) < 2
        /\ pt.from_Account_Type = "betting paypal account"
        /\ pt.to_Account_Type = "betting bank account"))

P_bank_transactions(bts) ==
    SelectSeq(bts, LAMBDA bt : bt.linked_transaction = 0)

\* available_bts: the unlinked bank transactions not yet removed by a match
P_available_bts(bts, removed) ==
    SelectSeq(P_bank_transactions(bts), LAMBDA bt : bt.id \notin removed)

\* _find_matching_scraped_transaction
P_find_matching_scraped_transaction(sts, gross_amount, date) ==
    FirstOr(SelectSeq(sts, LAMBDA st :
        /\ (IF st.Gross # 0 THEN Abs(st.Gross) ELSE 0) = gross_amount
        /\ st.Type = "transfer_sent"
        /\ st.Transaction_Date # 0
        /\ Abs(st.Transaction_Date - date) <= 3))

find_corresponding_bank_transaction(bank_account_id, amount, date, all_bank_transactions) ==
    FirstOr(SelectSeq(all_bank_transactions, LAMBDA bt :
        /\ bt.bankaccount_id = bank_account_id
        /\ bt.amount = amount
        /\ Abs(bt.date - date) <= 7))

P_ThreeWayMatch(pt, paypal_bt, bank_bt, st, net, fee) ==
    [original_platform_transaction |-> pt.id,
     paypal_bank_transaction |-> paypal_bt.id,
     bank_side_transaction |-> bank_bt.id,
     scraped_transaction |-> st.id,
     net_amount |-> net, fee_amount |-> fee]

\* "CRITICAL: Only proceed if there is a fee"
P_has_fee(scraped_gross, scraped_net) == scraped_gross # scraped_net

\* _check_three_way_match; NoRec stands for None
P_check_three_way_match(pt, available_bts, sts) ==
    LET transfer_amount == pt.Amount
        scraped_of(bt) == P_find_matching_scraped_transaction(sts, bt.amount, bt.date)
        paypal_bt == FirstOr(SelectSeq(available_bts, LAMBDA bt :
            /\ bt.amount >= transfer_amount
            /\ bt.bankaccount_id = pt.from_bankaccount_id
            /\ Abs(bt.date - pt.Date) <= 7
            /\ scraped_of(bt) # NoRec
            /\ (\/ transfer_amount = Abs(scraped_of(bt).Gross)
                \/ transfer_amount = Abs(scraped_of(bt).Net))
            /\ P_has_fee(Abs(scraped_of(bt).Gross), Abs(scraped_of(bt).Net))))
        scraped_match == scraped_of(paypal_bt)
        fallback_bank(st) == find_corresponding_bank_transaction(
            pt.to_bankaccount_id, -Abs(st.Net), st.Transaction_Date, available_bts)
        fallback_st == FirstOr(SelectSeq(sts, LAMBDA st :
            /\ st.Type = "transfer_sent"
            /\ (transfer_amount = Abs(st.Gross) \/ transfer_amount = Abs(st.Net))
            /\ Abs(st.Transaction_Date - pt.Date) <= 7
            /\ fallback_bank(st) # NoRec
            /\ P_has_fee(Abs(st.Gross), Abs(st.Net))))
        scraped_gross == Abs(scraped_match.Gross)
        scraped_net == Abs(scraped_match.Net)
        bank_bt == FirstOr(SelectSeq(available_bts, LAMBDA bt :
            /\ bt.id # paypal_bt.id
            /\ bt.amount = -scraped_net
            /\ bt.bankaccount_id = pt.to_bankaccount_id
            /\ Abs(bt.date - pt.Date) <= 7))
    IN  IF paypal_bt = NoRec
        THEN IF fallback_st = NoRec THEN NoRec
             ELSE P_ThreeWayMatch(pt, NoRec, fallback_bank(fallback_st), fallback_st,
                                  Abs(fallback_st.Net),
                                  Abs(fallback_st.Gross) - Abs(fallback_st.Net))
        ELSE IF bank_bt = NoRec THEN NoRec
             ELSE P_ThreeWayMatch(pt, paypal_bt, bank_bt, scraped_match,
                                  scraped_net, scraped_gross - scraped_net)

\* Step 2: the PayPal side (positive amount on the FROM account)
P_paypal_side_match(pt, available_bts) ==
    IF RelatedCount(pt, pt.from_bankaccount_id) # 0 THEN NoRec
    ELSE FirstOr(SelectSeq(available_bts, LAMBDA bt :
             /\ bt.amount = pt.Amount
             /\ bt.bankaccount_id = pt.from_bankaccount_id
             /\ Abs(bt.date - pt.Date) <= 7
             /\ bt.name \in PB_PAYPAL_NAMES))

\* Step 3: the bank side (negative amount on the TO account)
P_bank_side_match(pt, available_bts, paypal_side_match) ==
    IF RelatedCount(pt, pt.to_bankaccount_id) # 0 THEN NoRec
    ELSE FirstOr(SelectSeq(available_bts, LAMBDA bt :
             /\ bt.id # paypal_side_match.id
             /\ bt.amount < 0
             /\ bt.amount = -pt.Amount
             /\ Abs(bt.date - pt.Date) <= 7
             /\ bt.bankaccount_id = pt.to_bankaccount_id
             /\ bt.name \in PB_BANK_TRANSFER_NAMES))

\* Step 4: the SimpleMatch records of one platform transaction
P_simple_matches(pt, paypal_side_match, bank_side_match) ==
    IF paypal_side_match # NoRec /\ bank_side_match # NoRec
    THEN IF paypal_side_match.bankaccount_id = bank_side_match.bankaccount_id
         THEN <<>>
         ELSE <<SimpleMatch(pt, paypal_side_match), SimpleMatch(pt, bank_side_match)>>
    ELSE IF bank_side_match # NoRec
    THEN <<SimpleMatch(pt, bank_side_match)>>
    ELSE <<>>

P_pts == P_platform_transactions(platform_transactions)

P_Init ==
    /\ flavor = "paypal_to_bank"
    /\ dry_run = FALSE
    /\ pc = "match"
    /\ i = 1
    /\ platform_transactions \in { WithIds(f) : f \in [1..NPT -> PB_PTDomain] }
    /\ bank_transactions \in { WithRefs(f) : f \in [1..NBT -> PB_BTDomain] }
    /\ checkbook_payments = <<>>
    /\ scraped_transactions \in { WithIds(f) : f \in [1..NST -> PB_STDomain] }
    /\ matches = <<>>
    /\ three_way_matches = <<>>
    /\ matched_bank_transaction_ids = {}
    /\ matched_platform_transaction_ids = {}
    /\ used_checkbook_payment_ids = {}
    /\ unmatched_info = <<>>
    /\ candidates = NoCandidates
    /\ commands = <<>>
    /\ exec_result = <<>>
    /\ findings = <<>>
    /\ predicate_call = NoCall
    /\ previous_matches = <<>>

\* one iteration of the loop of match_transactions; the ids removed from
\* available_bts are kept in matched_bank_transaction_ids, the ids removed
\* from unmatched_pts in matched_platform_transaction_ids
P_MatchOne ==
    /\ flavor = "paypal_to_bank" /\ pc = "match" /\ i <= Len(P_pts)
    /\ LET pt == P_pts[i]
           available_bts == P_available_bts(bank_transactions,
                                            matched_bank_transaction_ids)
           unlinked == /\ RelatedCount(pt, pt.from_bankaccount_id) = 0
                       /\ RelatedCount(pt, pt.to_bankaccount_id) = 0
           three_way_match ==
               IF unlinked
               THEN P_check_three_way_match(pt, available_bts, scraped_transactions)
               ELSE NoRec
           paypal_side_match == P_paypal_side_match(pt, available_bts)
           bank_side_match == P_bank_side_match(pt, available_bts, paypal_side_match)
           new == P_simple_matches(pt, paypal_side_match, bank_side_match)
       IN  IF three_way_match # NoRec
           THEN /\ three_way_matches' = Append(three_way_matches, three_way_match)
                /\ matched_bank_transaction_ids' =
                       matched_bank_transaction_ids
                       \cup ({three_way_match.paypal_bank_transaction} \ {0})
                /\ matched_platform_transaction_ids' =
                       matched_platform_transaction_ids \cup {pt.id}
                /\ candidates' = [pt |-> pt.id, source |-> 0, dest |-> 0]
                /\ UNCHANGED <<matches, unmatched_info>>
           ELSE /\ matches' = matches \o new
                /\ matched_bank_transaction_ids' =
                       matched_bank_transaction_ids
                       \cup { new[k].bank_transaction : k \in 1..Len(new) }
                /\ matched_platform_transaction_ids' =
                       IF new # <<>>
                       THEN matched_platform_transaction_ids \cup {pt.id}
                       ELSE matched_platform_transaction_ids
                /\ unmatched_info' =
                       IF new = <<>> /\ unlinked
                       THEN Append(unmatched_info, pt.id)
                       ELSE unmatched_info
                /\ candidates' = [pt |-> pt.id, source |-> paypal_side_match.id,
                                  dest |-> bank_side_match.id]
                /\ UNCHANGED three_way_matches
    /\ i' = i + 1
    /\ UNCHANGED <<inputs, findings, predicate_call, previous_matches, pc, used_checkbook_payment_ids, commands, exec_result>>

P_MatchDone ==
    /\ flavor = "paypal_to_bank" /\ pc = "match" /\ i > Len(P_pts)
    /\ pc' = "exec_simple"
    /\ i' = 1
    /\ UNCHANGED <<inputs, findings, predicate_call, previous_matches, matches, transfer_state, matched_bank_transaction_ids,
                   matched_platform_transaction_ids, used_checkbook_payment_ids,
                   unmatched_info>>

\* the API commands a run issues, in order; match is the index of the
\* three-way match being executed (0 for a simple match), ok the outcome
Cmd(op, match, pt, type, amount, fromAcct, toAcct, ref, ok) ==
    [op |-> op, match |-> match, pt |-> pt, type |-> type, amount |-> amount,
     From_Account |-> fromAcct, To_Account |-> toAcct, ref |-> ref, ok |-> ok]

\* the id the API gives the next created platform transaction
FreshId(cmds) ==
    NPT + 1 + Cardinality({ k \in 1..Len(cmds) : cmds[k].op = "create" /\ cmds[k].ok })

BankRecord(id) == IF id = 0 THEN NoRec ELSE bank_transactions[id]

\* run_transfer_bettingpaypal_matcher.execute_simple_matches, one iteration
P_ExecSimple ==
    /\ flavor = "paypal_to_bank" /\ pc = "exec_simple" /\ i <= Len(matches)
    /\ \E ok \in BOOLEAN :
         commands' = Append(commands,
             Cmd("link", 0, matches[i].platform_transaction, "", 0, 0, 0,
                 BankRecord(matches[i].bank_transaction).transaction_id, ok))
    /\ i' = i + 1
    /\ UNCHANGED <<inputs, findings, predicate_call, previous_matches, pc, matches, three_way_matches, candidates, exec_result,
                   matched_bank_transaction_ids, matched_platform_transaction_ids,
                   used_checkbook_payment_ids, unmatched_info>>

P_ExecSimpleDone ==
    /\ flavor = "paypal_to_bank" /\ pc = "exec_simple" /\ i > Len(matches)
    /\ pc' = "exec_three_way"
    /\ i' = 1
    /\ UNCHANGED <<inputs, findings, predicate_call, previous_matches, matches, transfer_state, matched_bank_transaction_ids,
                   matched_platform_transaction_ids, used_checkbook_payment_ids,
                   unmatched_info>>

\* paypal_to_bank_matcher.execute_three_way_match for three_way_matches[i];
\* every return of the function is a bare return
P_ExecThreeWay ==
    /\ flavor = "paypal_to_bank" /\ pc = "exec_three_way"
    /\ i <= Len(three_way_matches)
    /\ LET m == three_way_matches[i]
           pt == platform_transactions[m.original_platform_transaction]
           paypal_bt == BankRecord(m.paypal_bank_transaction)
           bank_bt_to_link == BankRecord(m.bank_side_transaction)
           update_amount == IF paypal_bt # NoRec THEN Abs(paypal_bt.amount)
                            ELSE Abs(m.net_amount + m.fee_amount)
       IN  \E update_ok, fees_ok, transfer_ok, link1_ok, link2_ok \in BOOLEAN :
             LET update == Cmd("update", i, pt.id, "", update_amount, 0,
                               TRANSFER_ACCOUNT_ID, 0, update_ok)
                 fees_id == IF fees_ok THEN FreshId(commands) ELSE 0
                 fees == Cmd("create", i, fees_id, "fees", Abs(m.fee_amount),
                             TRANSFER_ACCOUNT_ID, FEES_ACCOUNT_ID, 0, fees_ok)
                 transfer_id == IF transfer_ok
                                THEN FreshId(Append(commands, fees)) ELSE 0
                 transfer == Cmd("create", i, transfer_id, "transfer",
                                 Abs(m.net_amount), TRANSFER_ACCOUNT_ID,
                                 pt.To_Account, 0, transfer_ok)
                 links ==
                     (IF paypal_bt # NoRec
                      THEN <<Cmd("link", i, pt.id, "", 0, 0, 0,
                                 paypal_bt.transaction_id, link1_ok)>>
                      ELSE <<>>)
                     \o (IF bank_bt_to_link # NoRec
                         THEN <<Cmd("link", i, transfer_id, "", 0, 0, 0,
                                    bank_bt_to_link.transaction_id, link2_ok)>>
                         ELSE <<>>)
             IN  commands' =
                     IF ~update_ok THEN Append(commands, update)
                     ELSE IF ~fees_ok \/ ~transfer_ok
                     THEN commands \o <<update, fees, transfer>>
                     ELSE commands \o <<update, fees, transfer>> \o links
    /\ exec_result' = Append(exec_result, "None")
    /\ i' = i + 1
    /\ UNCHANGED <<inputs, findings, predicate_call, previous_matches, pc, matches, three_way_matches, candidates,
                   matched_bank_transaction_ids, matched_platform_transaction_ids,
                   used_checkbook_payment_ids, unmatched_info>>

P_ExecDone ==
    /\ flavor = "paypal_to_bank" /\ pc = "exec_three_way"
    /\ i > Len(three_way_matches)
    /\ pc' = "done"
    /\ UNCHANGED <<inputs, findings, predicate_call, previous_matches, i, matches, transfer_state, matched_bank_transaction_ids,
                   matched_platform_transaction_ids, used_checkbook_payment_ids,
                   unmatched_info>>

P_Next ==
    \/ P_MatchOne
    \/ P_MatchDone
    \/ P_ExecSimple
    \/ P_ExecSimpleDone
    \/ P_ExecThreeWay
    \/ P_ExecDone

---------------------------------------------------------------------------
(* simplified_paypal_matcher.py and run_simplified_matcher.py              *)

BETTING_PAYPAL_KEYWORDS == {"money transfer to"}
BETTING_BANK_TRANSFER_KEYWORDS == {"paypal transfer", "money transfer authorized"}
NoKeywords == {}

\* _preprocess_data: the platform filter (no sort) and the unlinked bank records
S_platform_transactions(pts) ==
    SelectSeq(pts, LAMBDA pt :
        /\ pt.Transaction_Type = "transfer"
        /\ Len(pt.related_bank_transaction) < 2
        /\ pt.from_Account_Type = "betting paypal account"
        /\ pt.to_Account_Type = "betting bank account")

S_bank_transactions(bts) ==
    SelectSeq(bts, LAMBDA bt : bt.linked_transaction = 0)

\* _find_bank_transaction over the (account, amount) index
S_find_bank_transaction(bts, account_id, amount, date, used_bt_ids, keywords) ==
    FirstOr(SelectSeq(S_bank_transactions(bts), LAMBDA bt :
        /\ bt.bankaccount_id = account_id
        /\ bt.amount = amount
        /\ bt.id \notin used_bt_ids
        /\ Abs(bt.date - date) <= 7
        /\ (keywords # NoKeywords => bt.name \in keywords)))

\* the scraped candidates: the gross index first, then the net index
S_scraped_candidates(sts, pt_amount) ==
    SelectSeq(sts, LAMBDA st : Abs(st.Gross) = pt_amount)
    \o SelectSeq(sts, LAMBDA st : Abs(st.Net) = pt_amount /\ Abs(st.Gross) # pt_amount)

S_ThreeWayMatch(pt, st, paypal_bt, bank_side_bt, gross, net, fee) ==
    [original_platform_transaction |-> pt.id,
     scraped_transaction |-> st.id,
     paypal_bank_transaction |-> paypal_bt.id,
     bank_side_transaction |-> bank_side_bt.id,
     gross_amount |-> gross, net_amount |-> net, fee_amount |-> fee]

S_has_fee(fee_amount) == fee_amount > 1

\* _find_three_way_match; NoRec stands for None
S_find_three_way_match(pt, bts, sts, used_bt_ids) ==
    IF Len(pt.related_bank_transaction) # 0 THEN NoRec
    ELSE
    LET paypal_of(st) == S_find_bank_transaction(bts, pt.from_bankaccount_id,
                             Abs(st.Gross), st.Transaction_Date, used_bt_ids,
                             NoKeywords)
        bank_of(st) == S_find_bank_transaction(bts, pt.to_bankaccount_id,
                             -Abs(st.Net), st.Transaction_Date, used_bt_ids,
                             NoKeywords)
        st == FirstOr(SelectSeq(S_scraped_candidates(sts, pt.Amount), LAMBDA c :
                  /\ c.Transaction_Date # 0
                  /\ Abs(c.Transaction_Date - pt.Date) <= 7
                  /\ S_has_fee(Abs(c.Gross) - Abs(c.Net))
                  /\ paypal_of(c) # NoRec))
    IN  IF st = NoRec THEN NoRec
        ELSE S_ThreeWayMatch(pt, st, paypal_of(st), bank_of(st),
                             Abs(st.Gross), Abs(st.Net), Abs(st.Gross) - Abs(st.Net))

\* the SimpleMatch of this flavor carries the list of its bank transactions
S_SimpleMatch(pt, matched_bts) ==
    [platform_transaction |-> pt.id, bank_transactions |-> matched_bts]

\* _find_simple_match; NoRec stands for None
S_find_simple_match(pt, bts, used_bt_ids) ==
    LET paypal_side_bt == S_find_bank_transaction(bts, pt.from_bankaccount_id,
                              pt.Amount, pt.Date, used_bt_ids,
                              BETTING_PAYPAL_KEYWORDS)
        bank_side_bt == S_find_bank_transaction(bts, pt.to_bankaccount_id,
                              -pt.Amount, pt.Date, used_bt_ids,
                              BETTING_BANK_TRANSFER_KEYWORDS)
        matched_bts == (IF paypal_side_bt # NoRec THEN <<paypal_side_bt.id>> ELSE <<>>)
                       \o (IF bank_side_bt # NoRec THEN <<bank_side_bt.id>> ELSE <<>>)
    IN  IF bank_side_bt # NoRec THEN S_SimpleMatch(pt, matched_bts) ELSE NoRec

S_pts == S_platform_transactions(platform_transactions)

S_Init ==
    /\ flavor = "simplified"
    /\ dry_run \in BOOLEAN
    /\ pc = "match"
    /\ i = 1
    /\ platform_transactions \in { WithIds(f) : f \in [1..NPT -> PB_PTDomain] }
    /\ bank_transactions \in { WithRefs(f) : f \in [1..NBT -> PB_BTDomain] }
    /\ checkbook_payments = <<>>
    /\ scraped_transactions \in { WithIds(f) : f \in [1..NST -> PB_STDomain] }
    /\ matches = <<>>
    /\ three_way_matches = <<>>
    /\ matched_bank_transaction_ids = {}
    /\ matched_platform_transaction_ids = {}
    /\ used_checkbook_payment_ids = {}
    /\ unmatched_info = <<>>
    /\ candidates = NoCandidates
    /\ commands = <<>>
    /\ exec_result = <<>>
    /\ findings = <<>>
    /\ predicate_call = NoCall
    /\ previous_matches = <<>>

\* one iteration of the loop of match_transactions; used_bt_ids is
\* matched_bank_transaction_ids, matched_pt_ids is matched_platform_transaction_ids
S_MatchOne ==
    /\ flavor = "simplified" /\ pc = "match" /\ i <= Len(S_pts)
    /\ LET pt == S_pts[i]
           used_bt_ids == matched_bank_transaction_ids
           three_way_match == S_find_three_way_match(pt, bank_transactions,
                                  scraped_transactions, used_bt_ids)
           simple_match == S_find_simple_match(pt, bank_transactions, used_bt_ids)
           paypal_side_bt == S_find_bank_transaction(bank_transactions,
                                 pt.from_bankaccount_id, pt.Amount, pt.Date,
                                 used_bt_ids, BETTING_PAYPAL_KEYWORDS)
           bank_side_bt == S_find_bank_transaction(bank_transactions,
                                 pt.to_bankaccount_id, -pt.Amount, pt.Date,
                                 used_bt_ids, BETTING_BANK_TRANSFER_KEYWORDS)
       IN  IF three_way_match # NoRec
           THEN /\ three_way_matches' = Append(three_way_matches, three_way_match)
                /\ matched_platform_transaction_ids' =
                       matched_platform_transaction_ids \cup {pt.id}
                /\ matched_bank_transaction_ids' =
                       used_bt_ids
                       \cup ({three_way_match.paypal_bank_transaction,
                              three_way_match.bank_side_transaction} \ {0})
                /\ candidates' = [pt |-> pt.id, source |-> 0, dest |-> 0]
                /\ UNCHANGED matches
           ELSE IF simple_match # NoRec
           THEN /\ matches' = Append(matches, simple_match)
                /\ matched_platform_transaction_ids' =
                       matched_platform_transaction_ids \cup {pt.id}
                /\ matched_bank_transaction_ids' =
                       used_bt_ids \cup Range(simple_match.bank_transactions)
                /\ candidates' = [pt |-> pt.id, source |-> paypal_side_bt.id,
                                  dest |-> bank_side_bt.id]
                /\ UNCHANGED three_way_matches
           ELSE /\ candidates' = [pt |-> pt.id, source |-> paypal_side_bt.id,
                                  dest |-> bank_side_bt.id]
                /\ UNCHANGED <<matches, three_way_matches,
                               matched_platform_transaction_ids,
                               matched_bank_transaction_ids>>
    /\ i' = i + 1
    /\ UNCHANGED <<inputs, findings, predicate_call, previous_matches, pc, used_checkbook_payment_ids, unmatched_info,
                   commands, exec_result>>

\* the reason the closing loop of match_transactions attaches to the
\* UnmatchedTransactionInfo of pt
S_unmatched_reason(pt) ==
    "No simple or three-way match found based on the defined criteria."

\* the closing loop of match_transactions: what stayed unmatched is reported
S_MatchDone ==
    /\ flavor = "simplified" /\ pc = "match" /\ i > Len(S_pts)
    /\ unmatched_info' = Ids(Unmatched(S_pts, matched_platform_transaction_ids))
    /\ pc' = "exec_simple"
    /\ i' = 1
    /\ UNCHANGED <<inputs, findings, predicate_call, previous_matches, matches, transfer_state, matched_bank_transaction_ids,
                   matched_platform_transaction_ids, used_checkbook_payment_ids>>

\* the link commands of one simple match, one per bank transaction
RECURSIVE S_LinkCmds(_, _, _)
S_LinkCmds(pt_id, bt_ids, oks) ==
    IF bt_ids = <<>> THEN <<>>
    ELSE <<Cmd("link", 0, pt_id, "", 0, 0, 0,
               BankRecord(Head(bt_ids)).transaction_id, Head(oks))>>
         \o S_LinkCmds(pt_id, Tail(bt_ids), Tail(oks))

\* run_simplified_matcher.execute_simple_matches, one iteration
S_ExecSimple ==
    /\ flavor = "simplified" /\ pc = "exec_simple" /\ i <= Len(matches)
    /\ IF dry_run
       THEN UNCHANGED commands
       ELSE \E oks \in [1..Len(matches[i].bank_transactions) -> BOOLEAN] :
              commands' = commands \o S_LinkCmds(matches[i].platform_transaction,
                                                 matches[i].bank_transactions, oks)
    /\ i' = i + 1
    /\ UNCHANGED <<inputs, findings, predicate_call, previous_matches, pc, matches, three_way_matches, candidates, exec_result,
                   matched_bank_transaction_ids, matched_platform_transaction_ids,
                   used_checkbook_payment_ids, unmatched_info>>

S_ExecSimpleDone ==
    /\ flavor = "simplified" /\ pc = "exec_simple" /\ i > Len(matches)
    /\ pc' = "exec_three_way"
    /\ i' = 1
    /\ UNCHANGED <<inputs, findings, predicate_call, previous_matches, matches, transfer_state, matched_bank_transaction_ids,
                   matched_platform_transaction_ids, used_checkbook_payment_ids,
                   unmatched_info>>

\* run_simplified_matcher.execute_three_way_match for three_way_matches[i];
\* the function has no return value on any path
S_ExecThreeWay ==
    /\ flavor = "simplified" /\ pc = "exec_three_way"
    /\ i <= Len(three_way_matches)
    /\ LET m == three_way_matches[i]
           original_pt == platform_transactions[m.original_platform_transaction]
           to_account_id == original_pt.To_Account
           paypal_bt == BankRecord(m.paypal_bank_transaction)
           bank_side_bt == BankRecord(m.bank_side_transaction)
       IN  IF dry_run
           THEN UNCHANGED commands
           ELSE \E update_ok, fees_ok, transfer_ok, link1_ok, link2_ok \in BOOLEAN :
             LET update == Cmd("update", i, original_pt.id, "", m.gross_amount, 0,
                               TRANSFER_ACCOUNT_ID, 0, update_ok)
                 fees_id == IF fees_ok THEN FreshId(commands) ELSE 0
                 fees == Cmd("create", i, fees_id, "fees", m.fee_amount,
                             TRANSFER_ACCOUNT_ID, FEES_ACCOUNT_ID, 0, fees_ok)
                 transfer_id == IF transfer_ok
                                THEN FreshId(Append(commands, fees)) ELSE 0
                 transfer == Cmd("create", i, transfer_id, "transfer",
                                 m.net_amount, TRANSFER_ACCOUNT_ID,
                                 to_account_id, 0, transfer_ok)
                 links ==
                     (IF paypal_bt # NoRec
                      THEN <<Cmd("link", i, original_pt.id, "", 0, 0, 0,
                                 paypal_bt.transaction_id, link1_ok)>>
                      ELSE <<>>)
                     \o (IF bank_side_bt # NoRec
                         THEN <<Cmd("link", i, transfer_id, "", 0, 0, 0,
                                    bank_side_bt.transaction_id, link2_ok)>>
                         ELSE <<>>)
             IN  commands' =
                     IF ~update_ok THEN Append(commands, update)
                     ELSE IF ~fees_ok THEN commands \o <<update, fees>>
                     ELSE IF ~transfer_ok THEN commands \o <<update, fees, transfer>>
                     ELSE commands \o <<update, fees, transfer>> \o links
    /\ exec_result' = Append(exec_result, "None")
    /\ i' = i + 1
    /\ UNCHANGED <<inputs, findings, predicate_call, previous_matches, pc, matches, three_way_matches, candidates,
                   matched_bank_transaction_ids, matched_platform_transaction_ids,
                   used_checkbook_payment_ids, unmatched_info>>

S_ExecDone ==
    /\ flavor = "simplified" /\ pc = "exec_three_way"
    /\ i > Len(three_way_matches)
    /\ pc' = "done"
    /\ UNCHANGED <<inputs, findings, predicate_call, previous_matches, i, matches, transfer_state, matched_bank_transaction_ids,
                   matched_platform_transaction_ids, used_checkbook_payment_ids,
                   unmatched_info>>

S_Next ==
    \/ S_MatchOne
    \/ S_MatchDone
    \/ S_ExecSimple
    \/ S_ExecSimpleDone
    \/ S_ExecThreeWay
    \/ S_ExecDone

---------------------------------------------------------------------------
(* create_and_linked_unmatched_BP_transfers.py: old unlinked PayPal bank   *)
(* transactions are linked to, or split into, platform transactions        *)

\* the scraped lines as this script reads them (lower-case type, source)
CL_ST(gross, net, type, date) ==
    [Gross |-> gross, Net |-> net, type |-> type, source |-> "paypal",
     Transaction_Date |-> date]

CL_PTDomain ==
    { TPT(485, 10, 1, 2, <<>>, "betting paypal account", "betting bank account"),
      TPT(499, 10, 1, 2, <<>>, "betting paypal account", "betting bank account"),
      TPT(500, 10, 1, 2, <<>>, "betting paypal account", "betting bank account"),
      TPT(485, 10, 1, 2, Rel(1, 1), "betting paypal account", "betting bank account"),
      TPT(500, 10, 1, 9, <<>>, "betting paypal account", "transfer account"),
      TPT(700, 12, 2, 1, <<>>, "betting bank account", "betting paypal account") }

CL_BTDomain ==
    { TBT(500, 10, 1, "money transfer to", 0),
      TBT(500, 10, 1, "money transfer to", 1),
      TBT(500, 9, 1, "money transfer to", 0),      \* older than every platform record
      TBT(100, 10, 1, "money transfer to", 0),     \* at most 2.00
      TBT(-485, 10, 2, "paypal transfer", 0),
      TBT(-499, 10, 2, "paypal transfer", 0),
      TBT(-500, 10, 2, "paypal transfer", 0) }

CL_STDomain ==
    { CL_ST(-500, -485, "transfer_sent", 10),
      CL_ST(-500, -499, "transfer_sent", 10),
      CL_ST(-500, -500, "transfer_sent", 10),
      CL_ST(-500, -515, "transfer_sent", 10),
      CL_ST(-500, -485, "payment", 10) }

\* get_user_accounts: the player's accounts, one per bank account
user_accounts ==
    << [id |-> 101, bankaccount_id |-> 1, Account_Type |-> "betting paypal account",
        isDefault |-> FALSE],
       [id |-> 102, bankaccount_id |-> 2, Account_Type |-> "betting bank account",
        isDefault |-> TRUE] >>

default_betting_bank_id ==
    FirstOr(SelectSeq(user_accounts, LAMBDA acc :
        acc.isDefault /\ acc.Account_Type = "betting bank account")).id

RECURSIVE SeqMin(_)
SeqMin(s) ==
    IF Len(s) = 1 THEN s[1]
    ELSE IF s[1] <= SeqMin(Tail(s)) THEN s[1] ELSE SeqMin(Tail(s))

\* get_old_unlinked_paypal_transactions and the oldest-platform-date filter
CL_trigger_bts(bts, pts) ==
    LET oldest_pt_date == SeqMin([k \in 1..Len(pts) |-> pts[k].Date])
    IN  SelectSeq(bts, LAMBDA bt :
            /\ bt.linked_transaction = 0
            /\ bt.amount > 200
            /\ bt.name \in BETTING_PAYPAL_KEYWORDS
            /\ bt.bankaccount_id # 0
            /\ bt.date >= oldest_pt_date)

find_scraped_transaction_match(bt, scraped_txns) ==
    FirstOr(SelectSeq(scraped_txns, LAMBDA st :
        /\ st.type \in {"transfer_sent", "none"}
        /\ st.source \in {"paypal", "none"}
        /\ Abs(st.Gross) = Abs(bt.amount)
        /\ Abs(st.Transaction_Date - bt.date) <= 3))

find_platform_transaction_match(amount, date, from_account_type, to_account_type, platform_txns) ==
    FirstOr(SelectSeq(platform_txns, LAMBDA pt :
        /\ pt.Amount = amount
        /\ pt.from_Account_Type = from_account_type
        /\ pt.to_Account_Type = to_account_type
        /\ Abs(pt.Date - date) <= 7))

\* find_matching_bank_deposit: the single unambiguous deposit, or None
find_matching_bank_deposit(net_amount, net_date, all_bts) ==
    LET betting_bank_account_ids ==
            { user_accounts[k].bankaccount_id : k \in
                { j \in 1..Len(user_accounts) :
                    user_accounts[j].Account_Type = "betting bank account" } }
        found_deposits == SelectSeq(all_bts, LAMBDA bt :
            /\ bt.linked_transaction = 0
            /\ bt.bankaccount_id \in betting_bank_account_ids
            /\ bt.amount = -net_amount
            /\ Abs(bt.date - net_date) <= 7
            /\ bt.name \in BETTING_BANK_TRANSFER_KEYWORDS)
    IN  IF Len(found_deposits) = 1 THEN found_deposits[1] ELSE NoRec

AccountOfBank(bankaccount_id) ==
    FirstOr(SelectSeq(user_accounts, LAMBDA acc :
        acc.bankaccount_id = bankaccount_id)).id

\* handle_existing_net_pt: the commands it issues after cmds; oks are the
\* outcomes of its API calls in order
handle_existing_net_pt(pt, st, bt, cmds, oks) ==
    LET st_gross == Abs(st.Gross)
        st_net == Abs(st.Net)
        fee_amount == st_gross - st_net
        update == Cmd("update", bt.id, pt.id, "", 0, TRANSFER_ACCOUNT_ID, 0, 0, oks[1])
        fees == Cmd("create", bt.id, IF oks[2] THEN FreshId(cmds) ELSE 0, "fees",
                    fee_amount, TRANSFER_ACCOUNT_ID, FEES_ACCOUNT_ID, 0, oks[2])
        gross_id == IF oks[3] THEN FreshId(Append(cmds, fees)) ELSE 0
        gross == Cmd("create", bt.id, gross_id, "transfer", st_gross,
                     pt.From_Account, TRANSFER_ACCOUNT_ID, 0, oks[3])
    IN  IF fee_amount < 1
        THEN <<Cmd("link", bt.id, pt.id, "", 0, 0, 0, bt.transaction_id, oks[1])>>
        ELSE <<update, fees, gross>>
             \o (IF oks[3]
                 THEN <<Cmd("link", bt.id, gross_id, "", 0, 0, 0,
                            bt.transaction_id, oks[4])>>
                 ELSE <<>>)

\* handle_no_existing_pt
handle_no_existing_pt(st, bt, all_bts, cmds, oks) ==
    LET st_gross == Abs(st.Gross)
        st_net == Abs(st.Net)
        fee_amount == st_gross - st_net
        betting_paypal_account_id == AccountOfBank(bt.bankaccount_id)
        net_amount_to_find == IF fee_amount >= 1 THEN st_net ELSE st_gross
        matched_deposit_bt == find_matching_bank_deposit(net_amount_to_find,
                                  st.Transaction_Date, all_bts)
        to_account_id == IF matched_deposit_bt # NoRec
                         THEN AccountOfBank(matched_deposit_bt.bankaccount_id)
                         ELSE default_betting_bank_id
        first_id == IF oks[1] THEN FreshId(cmds) ELSE 0
        single == Cmd("create", bt.id, first_id, "transfer", st_gross,
                      betting_paypal_account_id, to_account_id, 0, oks[1])
        gross == Cmd("create", bt.id, first_id, "transfer", st_gross,
                     betting_paypal_account_id, TRANSFER_ACCOUNT_ID, 0, oks[1])
        trigger_link == IF oks[1]
                        THEN <<Cmd("link", bt.id, first_id, "", 0, 0, 0,
                                   bt.transaction_id, oks[2])>>
                        ELSE <<>>
        fees == Cmd("create", bt.id,
                    IF oks[3] THEN FreshId(Append(cmds, gross)) ELSE 0, "fees",
                    fee_amount, TRANSFER_ACCOUNT_ID, FEES_ACCOUNT_ID, 0, oks[3])
        net_id == IF oks[4] THEN FreshId(cmds \o <<gross, fees>>) ELSE 0
        net == Cmd("create", bt.id, net_id, "transfer", st_net,
                   TRANSFER_ACCOUNT_ID, to_account_id, 0, oks[4])
    IN  IF betting_paypal_account_id = 0 THEN <<>>
        ELSE IF fee_amount < 1
        THEN <<single>> \o trigger_link
             \o (IF oks[1] /\ matched_deposit_bt # NoRec
                 THEN <<Cmd("link", bt.id, first_id, "", 0, 0, 0,
                            matched_deposit_bt.transaction_id, oks[3])>>
                 ELSE <<>>)
        ELSE <<gross>> \o trigger_link \o <<fees, net>>
             \o (IF oks[4] /\ matched_deposit_bt # NoRec
                 THEN <<Cmd("link", bt.id, net_id, "", 0, 0, 0,
                            matched_deposit_bt.transaction_id, oks[5])>>
                 ELSE <<>>)

\* process_single_transaction: the commands issued for one trigger record;
\* details_ok is the outcome of get_platform_transaction_details
process_single_transaction(bt, scraped_txns, platform_txns, all_bts, cmds, details_ok, oks) ==
    LET scraped_match == find_scraped_transaction_match(bt, scraped_txns)
        gross_pt_match == find_platform_transaction_match(Abs(scraped_match.Gross),
                              scraped_match.Transaction_Date,
                              "betting paypal account", "transfer account",
                              platform_txns)
        net_pt_match == find_platform_transaction_match(Abs(scraped_match.Net),
                              scraped_match.Transaction_Date,
                              "betting paypal account", "betting bank account",
                              platform_txns)
        is_already_linked_to_paypal ==
            RelatedCount(net_pt_match, net_pt_match.from_bankaccount_id) > 0
    IN  IF scraped_match = NoRec THEN <<>>
        ELSE IF gross_pt_match # NoRec
        THEN <<Cmd("link", bt.id, gross_pt_match.id, "", 0, 0, 0,
                   bt.transaction_id, oks[1])>>
        ELSE IF net_pt_match # NoRec
        THEN IF is_already_linked_to_paypal \/ ~details_ok THEN <<>>
             ELSE handle_existing_net_pt(net_pt_match, scraped_match, bt, cmds, oks)
        ELSE handle_no_existing_pt(scraped_match, bt, all_bts, cmds, oks)

CL_triggers == CL_trigger_bts(bank_transactions, platform_transactions)

CL_Init ==
    /\ flavor = "create_and_link"
    /\ dry_run \in BOOLEAN
    /\ pc = "process"
    /\ i = 1
    /\ platform_transactions \in { WithIds(f) : f \in [1..NPT -> CL_PTDomain] }
    /\ bank_transactions \in { WithRefs(f) : f \in [1..NBT -> CL_BTDomain] }
    /\ checkbook_payments = <<>>
    /\ scraped_transactions \in { WithIds(f) : f \in [1..NST -> CL_STDomain] }
    /\ matches = <<>>
    /\ three_way_matches = <<>>
    /\ matched_bank_transaction_ids = {}
    /\ matched_platform_transaction_ids = {}
    /\ used_checkbook_payment_ids = {}
    /\ unmatched_info = <<>>
    /\ candidates = NoCandidates
    /\ commands = <<>>
    /\ exec_result = <<>>
    /\ findings = <<>>
    /\ predicate_call = NoCall
    /\ previous_matches = <<>>

\* one iteration of the loop of process_unmatched_paypal_transfers; in a
\* dry run every API helper returns before it issues its request
CL_ProcessOne ==
    /\ flavor = "create_and_link" /\ pc = "process" /\ i <= Len(CL_triggers)
    /\ IF dry_run
       THEN UNCHANGED commands
       ELSE \E details_ok \in BOOLEAN, oks \in [1..5 -> BOOLEAN] :
              commands' = commands \o
                  process_single_transaction(CL_triggers[i], scraped_transactions,
                      platform_transactions, bank_transactions, commands,
                      details_ok, oks)
    /\ i' = i + 1
    /\ UNCHANGED <<inputs, findings, predicate_call, previous_matches, pc, matches, three_way_matches, candidates, exec_result,
                   matched_bank_transaction_ids, matched_platform_transaction_ids,
                   used_checkbook_payment_ids, unmatched_info>>

CL_Done ==
    /\ flavor = "create_and_link" /\ pc = "process" /\ i > Len(CL_triggers)
    /\ pc' = "done"
    /\ UNCHANGED <<inputs, findings, predicate_call, previous_matches, i, matches, transfer_state, matched_bank_transaction_ids,
                   matched_platform_transaction_ids, used_checkbook_payment_ids,
                   unmatched_info>>

CL_Next == CL_ProcessOne \/ CL_Done

---------------------------------------------------------------------------
(* fee_matcher.py: 'fees' platform transactions against bank transactions  *)

BETTING_BANK_TO_FEES_KEYWORDS ==
    {"MONTHLY SERVICE FEE", "OVERDRAFT", "CHECKBOOK INC", "PAYPAL ACCTVERIFY",
     "SIGHTLINE_SUTTON", "HSAWCSPCUSTODIAN ACCTVERIFY"}

FEES_TO_BETTING_BANK_KEYWORDS ==
    {"Checkbook Inc MICRO DEP", "CHECKBOOK INC ACCTVERIFY", "PAYPAL ACCTVERIFY",
     "SIGHTLINE_BNKGEO ACCOUNTREG", "SIGHTLINE_SUTTON", "HSAWCSPCUSTODIAN ACCTVERIFY"}

\* a 'fees' platform record; an account id of 0 is an account without a bank account
FPT(type, amount, date, fromType, fromBank, From_Account, toType, toBank, To_Account, related) ==
    [Transaction_Type |-> type, Amount |-> amount, Date |-> date,
     from_Account_Type |-> fromType, from_bankaccount_id |-> fromBank,
     From_Account |-> From_Account,
     to_Account_Type |-> toType, to_bankaccount_id |-> toBank,
     To_Account |-> To_Account, related_bank_transaction |-> related]

\* a bank record as this script reads it (linked_transactions)
FBT(amount, date, acct, name, link) ==
    [amount |-> amount, date |-> date, bankaccount_id |-> acct, name |-> name,
     linked_transactions |-> link]

F_PTDomain ==
    { FPT("fees", 5, 10, "betting bank account", 2, 102, "fees account", 0,
          FEES_ACCOUNT_ID, <<>>),
      FPT("fees", 5, 12, "fees account", 0, FEES_ACCOUNT_ID, "betting bank account",
          2, 102, <<>>),
      FPT("fees", 5, 10, "betting bank account", 2, 102, "fees account", 0,
          FEES_ACCOUNT_ID, Rel(1, 2)),
      FPT("transfer", 5, 10, "betting bank account", 2, 102, "fees account", 0,
          FEES_ACCOUNT_ID, <<>>) }

F_BTDomain ==
    { FBT(5, 10, 2, "MONTHLY SERVICE FEE", 0),
      FBT(5, 19, 2, "OVERDRAFT", 0),
      FBT(5, 20, 2, "OVERDRAFT", 0),                \* ten days after
      FBT(-5, 10, 2, "PAYPAL ACCTVERIFY", 0),
      FBT(5, 10, 2, "MONTHLY SERVICE FEE", 1),      \* already linked
      FBT(-5, 10, 2, "PAYPAL ACCTVERIFY", 2),       \* already linked
      FBT(5, 10, 2, "deposit", 0),
      FBT(5, 10, 1, "MONTHLY SERVICE FEE", 0) }

get_unmatched_fees_platform_transactions(pts) ==
    SelectSeq(pts, LAMBDA pt :
        pt.Transaction_Type = "fees" /\ pt.related_bank_transaction = <<>>)

\* the filter of get_unmatched_bank_transactions with the link test dropped
get_unmatched_bank_transactions_Unfiltered(bts) == bts

get_unmatched_bank_transactions(bts) ==
    SelectSeq(bts, LAMBDA bt : bt.linked_transactions = 0)

\* a matcher that guesses: the first record that meets every criterion
F_found_match_First(pt, remaining, target_bank_account_id, expected, keywords) ==
    FirstOr(SelectSeq(remaining, LAMBDA bt :
        /\ bt.bankaccount_id = target_bank_account_id
        /\ bt.date # 0
        /\ Abs(pt.Date - bt.date) <= 9
        /\ bt.amount = expected
        /\ bt.name \in keywords))

\* the inner loop of match_fee_transactions_for_player: the only record that
\* meets every criterion, None when there are none or more than one
F_found_match(pt, remaining, target_bank_account_id, expected, keywords) ==
    LET hits == SelectSeq(remaining, LAMBDA bt :
            /\ bt.bankaccount_id = target_bank_account_id
            /\ bt.date # 0
            /\ Abs(pt.Date - bt.date) <= 9
            /\ bt.amount = expected
            /\ bt.name \in keywords)
    IN  IF Len(hits) = 1 THEN hits[1] ELSE NoRec

\* the two directions of one platform transaction
F_match_of(pt, remaining) ==
    IF pt.Date = 0 THEN NoRec
    ELSE IF pt.from_Account_Type = "betting bank account" /\ pt.To_Account = FEES_ACCOUNT_ID
    THEN IF pt.from_bankaccount_id = 0 THEN NoRec
         ELSE F_found_match(pt, remaining, pt.from_bankaccount_id, pt.Amount,
                            BETTING_BANK_TO_FEES_KEYWORDS)
    ELSE IF pt.From_Account = FEES_ACCOUNT_ID /\ pt.to_Account_Type = "betting bank account"
    THEN IF pt.to_bankaccount_id = 0 THEN NoRec
         ELSE F_found_match(pt, remaining, pt.to_bankaccount_id, -pt.Amount,
                            FEES_TO_BETTING_BANK_KEYWORDS)
    ELSE NoRec

F_pts == get_unmatched_fees_platform_transactions(platform_transactions)

\* the local list bank_transactions, from which every match is removed
F_remaining ==
    SelectSeq(get_unmatched_bank_transactions(bank_transactions),
              LAMBDA bt : bt.id \notin matched_bank_transaction_ids)

F_Init ==
    /\ flavor = "fee"
    /\ dry_run \in BOOLEAN
    /\ pc = "match"
    /\ i = 1
    /\ platform_transactions \in { WithIds(f) : f \in [1..NPT -> F_PTDomain] }
    /\ bank_transactions \in { WithRefs(f) : f \in [1..NBT -> F_BTDomain] }
    /\ checkbook_payments = <<>>
    /\ scraped_transactions = <<>>
    /\ matches = <<>>
    /\ three_way_matches = <<>>
    /\ matched_bank_transaction_ids = {}
    /\ matched_platform_transaction_ids = {}
    /\ used_checkbook_payment_ids = {}
    /\ unmatched_info = <<>>
    /\ candidates = NoCandidates
    /\ commands = <<>>
    /\ exec_result = <<>>
    /\ findings = <<>>
    /\ predicate_call = NoCall
    /\ previous_matches = <<>>

\* the iteration that links its match whatever the flag says
F_MatchOne_AlwaysLinked ==
    /\ flavor = "fee" /\ pc = "match" /\ i <= Len(F_pts)
    /\ F_remaining # <<>> \/ i > 1
    /\ LET pt == F_pts[i]
           found_match == F_match_of(pt, F_remaining)
       IN  IF found_match # NoRec
           THEN /\ matches' = Append(matches, SimpleMatch(pt, found_match))
                /\ matched_bank_transaction_ids' =
                       matched_bank_transaction_ids \cup {found_match.id}
                /\ \E ok \in BOOLEAN :
                          commands' = Append(commands,
                              Cmd("link", 0, pt.id, "", 0, 0, 0,
                                  found_match.transaction_id, ok))
           ELSE UNCHANGED <<matches, matched_bank_transaction_ids, commands>>
    /\ i' = i + 1
    /\ UNCHANGED <<inputs, findings, predicate_call, previous_matches, pc, three_way_matches, candidates, exec_result,
                   matched_platform_transaction_ids, used_checkbook_payment_ids,
                   unmatched_info>>

\* one iteration of the loop of match_fee_transactions_for_player: a match
\* is linked (logged in a dry run), counted, and removed from the list
F_MatchOne ==
    /\ flavor = "fee" /\ pc = "match" /\ i <= Len(F_pts)
    /\ F_remaining # <<>> \/ i > 1
    /\ LET pt == F_pts[i]
           found_match == F_match_of(pt, F_remaining)
       IN  IF found_match # NoRec
           THEN /\ matches' = Append(matches, SimpleMatch(pt, found_match))
                /\ matched_bank_transaction_ids' =
                       matched_bank_transaction_ids \cup {found_match.id}
                /\ IF dry_run THEN UNCHANGED commands
                   ELSE \E ok \in BOOLEAN :
                          commands' = Append(commands,
                              Cmd("link", 0, pt.id, "", 0, 0, 0,
                                  found_match.transaction_id, ok))
           ELSE UNCHANGED <<matches, matched_bank_transaction_ids, commands>>
    /\ i' = i + 1
    /\ UNCHANGED <<inputs, findings, predicate_call, previous_matches, pc, three_way_matches, candidates, exec_result,
                   matched_platform_transaction_ids, used_checkbook_payment_ids,
                   unmatched_info>>

\* the loop is over, or a list was empty and the function returned 0 at once
F_Done ==
    /\ flavor = "fee" /\ pc = "match"
    /\ i > Len(F_pts) \/ (i = 1 /\ F_remaining = <<>>)
    /\ pc' = "done"
    /\ UNCHANGED <<inputs, findings, predicate_call, previous_matches, i, matches, transfer_state, matched_bank_transaction_ids,
                   matched_platform_transaction_ids, used_checkbook_payment_ids,
                   unmatched_info>>

F_Next == F_MatchOne \/ F_Done

---------------------------------------------------------------------------
(* deposit_matcher.py: deposits against the casino's keyword list.  A date *)
(* of 0 is a missing or unparsable date; a bank record carries the link    *)
(* field this script reads (transaction_link).                             *)

DPT(type, amount, date, fromAcct, name, related) ==
    [Transaction_Type |-> type, Amount |-> amount, Date |-> date,
     from_bankaccount_id |-> fromAcct, Name |-> name,
     related_bank_transaction |-> related]

Dep_PTDomain ==
    { DPT("deposit", 100, 10, 1, "FanDuel", <<>>),
      DPT("deposit", 100, 12, 1, "FanDuel", <<>>),
      DPT("deposit", 100, 10, 1, "NoList", <<>>),     \* a casino without keywords
      DPT("deposit", 100, 0, 1, "FanDuel", <<>>),     \* unparsable date
      DPT("deposit", 100, 10, 1, "FanDuel", Rel(1, 1)),
      DPT("withdrawal", 100, 10, 1, "FanDuel", <<>>) }

Dep_BTDomain ==
    { BT(100, 10, 1, "FANDUEL", 0),
      BT(100, 8, 1, "FANDUEL", 0),
      BT(100, 20, 1, "FANDUEL", 0),
      BT(100, 10, 1, "OTHER", 0),
      BT(100, 10, 1, "FANDUEL", 3),                   \* already linked
      BT(100, 0, 1, "FANDUEL", 0),                    \* unparsable date
      BT(100, 10, 2, "FANDUEL", 0) }

\* load_keywords: the keyword list of a casino name, empty when the file
\* holds none for it
casino_keywords(name) == IF name = "FanDuel" THEN {"FANDUEL"} ELSE {}

\* the unlinked deposits, sorted by date (an unparsable date sorts first)
Dep_deposit_pts(pts) ==
    SortByDate(SelectSeq(pts, LAMBDA pt :
        pt.Transaction_Type = "deposit" /\ pt.related_bank_transaction = <<>>))

\* the unlinked bank transactions, stably sorted by date
Dep_unlinked_bts(bts) ==
    LET u == SelectSeq(bts, LAMBDA bt : bt.transaction_link = 0)
        pos(k) == 1 + Cardinality({ j \in 1..Len(u) :
                        \/ u[j].date < u[k].date
                        \/ u[j].date = u[k].date /\ j < k })
    IN  [ p \in 1..Len(u) |-> u[CHOOSE k \in 1..Len(u) : pos(k) = p] ]

\* rules 1 to 4 of the inner loop of process_player
Dep_rules_pass(pt, bt) ==
    /\ bt.amount = pt.Amount
    /\ bt.date # 0
    /\ Abs(bt.date - pt.Date) <= 9
    /\ bt.bankaccount_id = pt.from_bankaccount_id
    /\ bt.name \in casino_keywords(pt.Name)

\* the first bank transaction of the pool that passes every rule
Dep_matched_bt(pt, pool) ==
    IF pt.Date = 0 \/ pt.from_bankaccount_id = 0 THEN NoRec
    ELSE FirstOr(SelectSeq(pool, LAMBDA bt : Dep_rules_pass(pt, bt)))

Dep_pts == Dep_deposit_pts(platform_transactions)

\* unlinked_bts after the pops of the matches made so far
Dep_pool ==
    SelectSeq(Dep_unlinked_bts(bank_transactions),
              LAMBDA bt : bt.id \notin matched_bank_transaction_ids)

Dep_Init ==
    /\ flavor = "deposit"
    /\ dry_run \in BOOLEAN
    /\ pc = "match"
    /\ i = 1
    /\ platform_transactions \in { WithIds(f) : f \in [1..NPT -> Dep_PTDomain] }
    /\ bank_transactions \in { WithRefs(f) : f \in [1..NBT -> Dep_BTDomain] }
    /\ checkbook_payments = <<>>
    /\ scraped_transactions = <<>>
    /\ matches = <<>>
    /\ three_way_matches = <<>>
    /\ matched_bank_transaction_ids = {}
    /\ matched_platform_transaction_ids = {}
    /\ used_checkbook_payment_ids = {}
    /\ unmatched_info = <<>>
    /\ candidates = NoCandidates
    /\ commands = <<>>
    /\ exec_result = <<>>
    /\ findings = <<>>
    /\ predicate_call = NoCall
    /\ previous_matches = <<>>

\* one iteration of the matching loop of process_player: the match is linked
\* on both sides (nothing is sent in a dry run) and popped from the pool
Dep_MatchOne ==
    /\ flavor = "deposit" /\ pc = "match" /\ i <= Len(Dep_pts)
    /\ LET pt == Dep_pts[i]
           matched_bt == Dep_matched_bt(pt, Dep_pool)
       IN  IF matched_bt # NoRec
           THEN /\ matches' = Append(matches, SimpleMatch(pt, matched_bt))
                /\ matched_bank_transaction_ids' =
                       matched_bank_transaction_ids \cup {matched_bt.id}
                /\ matched_platform_transaction_ids' =
                       matched_platform_transaction_ids \cup {pt.id}
                /\ IF dry_run THEN UNCHANGED commands
                   ELSE \E ok \in BOOLEAN :
                          commands' = commands \o
                              << Cmd("link", 0, pt.id, "", 0, 0, 0,
                                     matched_bt.transaction_id, ok),
                                 Cmd("update", 0, pt.id, "", 0, 0, 0,
                                     matched_bt.id, ok) >>
           ELSE UNCHANGED <<matches, matched_bank_transaction_ids,
                            matched_platform_transaction_ids, commands>>
    /\ i' = i + 1
    /\ UNCHANGED <<inputs, findings, predicate_call, previous_matches, pc, three_way_matches, candidates, exec_result,
                   used_checkbook_payment_ids, unmatched_info>>

\* the loop is over
Dep_Done ==
    /\ flavor = "deposit" /\ pc = "match" /\ i > Len(Dep_pts)
    /\ pc' = "done"
    /\ UNCHANGED <<inputs, findings, predicate_call, previous_matches, i, matches, transfer_state, matched_bank_transaction_ids,
                   matched_platform_transaction_ids, used_checkbook_payment_ids,
                   unmatched_info>>

Dep_Next == Dep_MatchOne \/ Dep_Done

---------------------------------------------------------------------------
(* The runs checked together                                               *)

\* the transfer flavors
Spec_Transfer ==
    /\ T_Init \/ P_Init \/ S_Init
    /\ [][T_Next \/ P_Next \/ S_Next]_vars

\* the flavors that split a platform transaction
Spec_Split ==
    /\ P_Init \/ S_Init \/ CL_Init
    /\ [][P_Next \/ S_Next \/ CL_Next]_vars

\* every matcher flavor
SpecAll ==
    /\ R_Init \/ Ret_Init \/ T_Init \/ P_Init \/ S_Init \/ F_Init
    /\ [][R_Next \/ Ret_Next \/ T_Next \/ P_Next \/ S_Next \/ F_Next]_vars

\* a received run over fetched records of which at most one has a missing
\* or unparsable date (Date 0)
Mal_PTDomain == R_PTDomain \cup { PT("received", 100, 0, 9, 1, <<>>, USER_ID) }

Mal_BTDomain == R_BTDomain \cup { BT(-100, 0, 1, "deposit", 0) }

MalformedCount(pts, bts) ==
    Cardinality({ k \in 1..Len(pts) : pts[k].Date = 0 })
    + Cardinality({ k \in 1..Len(bts) : bts[k].date = 0 })

Mal_Init ==
    /\ flavor = "received"
    /\ dry_run = FALSE
    /\ pc = "direct"
    /\ i = 1
    /\ platform_transactions \in { WithIds(f) : f \in [1..NPT -> Mal_PTDomain] }
    /\ bank_transactions \in { WithIds(f) : f \in [1..NBT -> Mal_BTDomain] }
    /\ MalformedCount(platform_transactions, bank_transactions) <= 1
    /\ checkbook_payments \in { WithIds(f) : f \in [1..NCP -> R_CPDomain] }
    /\ scraped_transactions = <<>>
    /\ matches = <<>>
    /\ three_way_matches = <<>>
    /\ matched_bank_transaction_ids = {}
    /\ matched_platform_transaction_ids = {}
    /\ used_checkbook_payment_ids = {}
    /\ unmatched_info = <<>>
    /\ candidates = NoCandidates
    /\ commands = <<>>
    /\ exec_result = <<>>
    /\ findings = <<>>
    /\ predicate_call = NoCall
    /\ previous_matches = <<>>

\* Step 2 of match_received_transactions parses, outside any try block, the
\* date of the platform transaction it takes and of every potential bank
\* transaction not yet matched: datetime.fromisoformat raises on a missing
\* or unparsable date
R_step_raises ==
    /\ flavor = "received" /\ pc = "discover" /\ i <= Len(R_rpts)
    /\ R_rpts[i].id \notin matched_platform_transaction_ids
    /\ \/ R_rpts[i].Date = 0
       \/ \E bt \in Range(R_potential) :
              bt.id \notin matched_bank_transaction_ids /\ bt.date = 0

\* the exception leaves match_received_transactions: no MatchResults
R_Raise ==
    /\ R_step_raises
    /\ pc' = "aborted"
    /\ UNCHANGED <<inputs, findings, predicate_call, previous_matches, i, matches, transfer_state,
                   matched_bank_transaction_ids, matched_platform_transaction_ids,
                   used_checkbook_payment_ids, unmatched_info>>

Mal_Next ==
    \/ R_Raise
    \/ ~R_step_raises /\ R_Next

Spec_Malformed == Mal_Init /\ [][Mal_Next]_vars

\* the fetched bank list when a record may come without its external
\* reference: transaction_id 0 is an absent reference
WithSomeRefs(f, has) ==
    [ k \in DOMAIN f |->
        [id |-> k, transaction_id |-> IF has[k] THEN 1000 + k ELSE 0] @@ f[k] ]

\* a simplified run that links its matches, over such a bank list
NoRef_Init ==
    /\ flavor = "simplified"
    /\ dry_run = FALSE
    /\ pc = "match"
    /\ i = 1
    /\ platform_transactions \in { WithIds(f) : f \in [1..NPT -> PB_PTDomain] }
    /\ bank_transactions \in
           { WithSomeRefs(f, has) : f \in [1..NBT -> PB_BTDomain],
                                    has \in [1..NBT -> BOOLEAN] }
    /\ checkbook_payments = <<>>
    /\ scraped_transactions \in { WithIds(f) : f \in [1..NST -> PB_STDomain] }
    /\ matches = <<>>
    /\ three_way_matches = <<>>
    /\ matched_bank_transaction_ids = {}
    /\ matched_platform_transaction_ids = {}
    /\ used_checkbook_payment_ids = {}
    /\ unmatched_info = <<>>
    /\ candidates = NoCandidates
    /\ commands = <<>>
    /\ exec_result = <<>>
    /\ findings = <<>>
    /\ predicate_call = NoCall
    /\ previous_matches = <<>>

Spec_NoRef == NoRef_Init /\ [][S_Next]_vars

\* the scripts that take --dry-run
Spec_DryRun ==
    /\ S_Init \/ CL_Init \/ F_Init \/ Dep_Init
    /\ [][S_Next \/ CL_Next \/ F_Next \/ Dep_Next]_vars

\* run_single_player_debug, Step 5/7, followed by a new run for the player:
\* every Match of the finished run is persisted on its bank record
\* (transaction_link = platform transaction id), the back end may also list
\* the bank record in the platform transaction's related_bank_transaction,
\* and a matcher is constructed anew over the records fetched again
LinkPersisted(bt, ms) ==
    IF \E k \in 1..Len(ms) : ms[k].bank_transaction = bt.id
    THEN [bt EXCEPT !.transaction_link =
             ms[CHOOSE k \in 1..Len(ms) : ms[k].bank_transaction = bt.id]
                 .platform_transaction]
    ELSE bt

RelatedPersisted(pt, ms, bts) ==
    IF \E k \in 1..Len(ms) : ms[k].platform_transaction = pt.id
    THEN LET b == ms[CHOOSE k \in 1..Len(ms) :
                         ms[k].platform_transaction = pt.id].bank_transaction
         IN  [pt EXCEPT !.related_bank_transaction =
                            Rel(b, bts[b].bankaccount_id)]
    ELSE pt

R_PersistAndRerun ==
    /\ flavor = "received" /\ pc = "done"
    /\ matches # <<>> /\ previous_matches = <<>>
    /\ previous_matches' = matches
    /\ bank_transactions' =
           [ k \in 1..Len(bank_transactions) |->
               LinkPersisted(bank_transactions[k], matches) ]
    /\ \E listed \in BOOLEAN :
          platform_transactions' =
              [ k \in 1..Len(platform_transactions) |->
                  IF listed
                  THEN RelatedPersisted(platform_transactions[k], matches,
                                        bank_transactions)
                  ELSE platform_transactions[k] ]
    /\ matches' = <<>>
    /\ matched_bank_transaction_ids' = {}
    /\ matched_platform_transaction_ids' = {}
    /\ used_checkbook_payment_ids' = {}
    /\ unmatched_info' = <<>>
    /\ pc' = "direct"
    /\ i' = 1
    /\ UNCHANGED <<flavor, dry_run, checkbook_payments, scraped_transactions,
                   findings, predicate_call, transfer_state>>

\* a received run, its links persisted, and the run after it
Spec_Rerun == R_Init /\ [][R_Next \/ R_PersistAndRerun]_vars

\* a fee run
Spec_Fee == F_Init /\ [][F_Next]_vars

\* the amount and date predicates of the received and returned matchers
\* called on their own, on amounts in cents and dates in days
MaxDay == 12

AmountArgs ==
    LET cents == {1, 2, 3, 6, 7, 100, 101, 102, 10000, 10001}
    IN  cents \cup { -c : c \in cents } \cup {0}

Pred_Init ==
    /\ flavor \in {"received", "returned"}
    /\ dry_run = FALSE
    /\ pc = "call"
    /\ i = 1
    /\ platform_transactions = <<>>
    /\ bank_transactions = <<>>
    /\ checkbook_payments = <<>>
    /\ scraped_transactions = <<>>
    /\ matches = <<>>
    /\ three_way_matches = <<>>
    /\ matched_bank_transaction_ids = {}
    /\ matched_platform_transaction_ids = {}
    /\ used_checkbook_payment_ids = {}
    /\ unmatched_info = <<>>
    /\ candidates = NoCandidates
    /\ commands = <<>>
    /\ exec_result = <<>>
    /\ findings = <<>>
    /\ previous_matches = <<>>
    /\ \/ \E a \in 1..MaxDay, b \in 1..MaxDay :
             predicate_call = [fn |-> "_is_date_match", a |-> a, b |-> b,
                               result |-> FALSE]
       \/ \E a \in AmountArgs, b \in AmountArgs :
             predicate_call = [fn |-> "_is_amount_match", a |-> a, b |-> b,
                               result |-> FALSE]

\* _is_date_match(platform_date, bank_date) returns
CallDateMatch ==
    /\ pc = "call" /\ predicate_call.fn = "_is_date_match"
    /\ predicate_call' =
           [predicate_call EXCEPT !.result =
               IF flavor = "received"
               THEN R_is_date_match(predicate_call.a, predicate_call.b)
               ELSE Ret_is_date_match(predicate_call.a, predicate_call.b)]
    /\ pc' = "returned"
    /\ UNCHANGED <<inputs, findings, previous_matches, i, matches, transfer_state,
                   matched_bank_transaction_ids, matched_platform_transaction_ids,
                   used_checkbook_payment_ids, unmatched_info>>

\* _is_amount_match(platform_amount, bank_amount) returns
CallAmountMatch ==
    /\ pc = "call" /\ predicate_call.fn = "_is_amount_match"
    /\ predicate_call' =
           [predicate_call EXCEPT !.result =
               IF flavor = "received"
               THEN R_is_amount_match(predicate_call.a, predicate_call.b)
               ELSE Ret_is_amount_match(predicate_call.a, predicate_call.b)]
    /\ pc' = "returned"
    /\ UNCHANGED <<inputs, findings, previous_matches, i, matches, transfer_state,
                   matched_bank_transaction_ids, matched_platform_transaction_ids,
                   used_checkbook_payment_ids, unmatched_info>>

Spec_Predicates == Pred_Init /\ [][CallDateMatch \/ CallAmountMatch]_vars

\* _resolve_unmatched_duplicates called on its own: the lists handed to it
\* are every received (returned) platform transaction and every potential
\* bank transaction, nothing is matched or used yet
Resolve_Init ==
    /\ flavor \in {"received", "returned"}
    /\ dry_run = FALSE
    /\ pc = "resolve"
    /\ i = 1
    /\ platform_transactions \in
           { WithIds(f) : f \in [1..NPT -> IF flavor = "received" THEN R_PTDomain
                                           ELSE Ret_PTDomain] }
    /\ bank_transactions \in
           { WithIds(f) : f \in [1..NBT -> IF flavor = "received" THEN R_BTDomain
                                           ELSE Ret_BTDomain] }
    /\ checkbook_payments \in
           IF flavor = "received" THEN { WithIds(f) : f \in [1..NCP -> R_CPDomain] }
           ELSE {<<>>}
    /\ scraped_transactions = <<>>
    /\ matches = <<>>
    /\ three_way_matches = <<>>
    /\ matched_bank_transaction_ids = {}
    /\ matched_platform_transaction_ids = {}
    /\ used_checkbook_payment_ids = {}
    /\ unmatched_info = <<>>
    /\ candidates = NoCandidates
    /\ commands = <<>>
    /\ exec_result = <<>>
    /\ findings = <<>>
    /\ predicate_call = NoCall
    /\ previous_matches = <<>>

\* the duplicate-resolution pass applied to unmatched lists
Spec_Resolve ==
    /\ Resolve_Init
    /\ [][R_ResolveDuplicates \/ Ret_ResolveDuplicates]_vars

\* test_received_matching: one received platform transaction of 2500.00
\* dated 2025-08-06 (day 20306) to bank account 18668, one bank transaction
\* of -2500.00 on that date and account, one OUTGOING checkbook payment of
\* 2500.00 to the player described "Deposit from external source"; the
\* timestamp of the payment ranges from nine days before the bank date to
\* the one of the sample (2025-08-19)
Scenario1_Init ==
    /\ flavor = "received"
    /\ dry_run = FALSE
    /\ pc = "direct"
    /\ i = 1
    /\ platform_transactions =
           WithIds(<<PT("received", 250000, 20306, 99999, 18668, <<>>, OTHER_USER)>>)
    /\ bank_transactions =
           WithIds(<<BT(-250000, 20306, 18668, "deposit", 0)>>)
    /\ checkbook_payments \in
           { WithIds(<<CP(250000, t, USER_ID, "OUTGOING",
                          <<"D", "e", "p", "o", "s", "i", "t", " ", "f", "r", "o", "m", " ", "e", "x", "t", "e", "r", "n", "a", "l", " ", "s", "o", "u", "r", "c", "e">>)>>) :
               t \in (20297 * TicksPerDay)..(20319 * TicksPerDay + 1) }
    /\ scraped_transactions = <<>>
    /\ matches = <<>>
    /\ three_way_matches = <<>>
    /\ matched_bank_transaction_ids = {}
    /\ matched_platform_transaction_ids = {}
    /\ used_checkbook_payment_ids = {}
    /\ unmatched_info = <<>>
    /\ candidates = NoCandidates
    /\ commands = <<>>
    /\ exec_result = <<>>
    /\ findings = <<>>
    /\ predicate_call = NoCall
    /\ previous_matches = <<>>

\* the received matcher on the sample records
Spec_Scenario1 == Scenario1_Init /\ [][R_Next]_vars

\* the flavors with a single-record discovery pass
Spec_Discovery ==
    /\ R_Init \/ Ret_Init \/ Dep_Init
    /\ [][R_Next \/ Ret_Next \/ Dep_Next]_vars

---------------------------------------------------------------------------
(* Properties                                                              *)

MatchesOf(pt_id) == { k \in 1..Len(matches) : matches[k].platform_transaction = pt_id }

\* C2: in a received run no checkbook payment is the corroborating payment
\* of more than one Match, counting fresh discovery and the duplicate pass.
C2_CheckbookPaymentBacksOneMatch ==
    flavor = "received" =>
        \A a, b \in 1..Len(matches) :
            (a # b /\ matches[a].checkbook_payment # 0) =>
                matches[a].checkbook_payment # matches[b].checkbook_payment

\* a finished received run in which a Match holds a payment that would also
\* have backed an unmatched platform transaction with a free bank transaction
C2_Witness ==
    /\ flavor = "received" /\ pc = "done"
    /\ \E m \in Range(matches), pt \in Range(R_rpts), bt \in Range(R_potential) :
          /\ m.checkbook_payment # 0
          /\ pt.id \in Range(unmatched_info)
          /\ bt.id \notin matched_bank_transaction_ids
          /\ R_is_amount_match(pt.Amount, bt.amount)
          /\ R_is_date_match(pt.Date, bt.date)
          /\ R_is_bank_account_match(pt, bt)
          /\ R_find_matching_checkbook_payment(checkbook_payments,
                 used_checkbook_payment_ids, bt, pt, TRUE).id = m.checkbook_payment

\* the typed platform transactions of a received or returned run
RR_pts == IF flavor = "received" THEN R_rpts ELSE Ret_rpts

\* the fetched bank transactions a platform transaction names as its link
LinkedBanks(pt) ==
    IF pt.related_bank_transaction = <<>> THEN {}
    ELSE { bt \in Range(bank_transactions) :
               bt.id = pt.related_bank_transaction[1].id }

ClaimedByAnotherLink(pt, bt) ==
    \/ bt.transaction_link \notin {0, pt.id}
    \/ \E other \in Range(platform_transactions) :
          other.id # pt.id /\ bt \in LinkedBanks(other)

BanksOf(m) ==
    IF "bank_transactions" \in DOMAIN m THEN Range(m.bank_transactions)
    ELSE {m.bank_transaction}

\* the bank records on the two legs of a three-way match
ThreeWayBanks(m) == {m.paypal_bank_transaction, m.bank_side_transaction} \ {0}

\* how many Matches of the run consume bank record b
Consumers(b) ==
    Cardinality({ k \in 1..Len(matches) : b \in BanksOf(matches[k]) })
    + Cardinality({ k \in 1..Len(three_way_matches) :
                      b \in ThreeWayBanks(three_way_matches[k]) })

\* C1: in a run of any flavor no bank transaction is the consumed bank
\* record of more than one Match, counting direct matches, discovered
\* matches and both legs of three-way matches.
C1_AsStated ==
    \A b \in 1..Len(bank_transactions) : Consumers(b) <= 1

\* the link a bank record carries when the run starts, under the field name
\* its flavor reads
LinkOf(bt) ==
    IF "transaction_link" \in DOMAIN bt THEN bt.transaction_link
    ELSE IF "linked_transaction" \in DOMAIN bt THEN bt.linked_transaction
    ELSE bt.linked_transactions

IsDirect(m) == "is_direct_match" \in DOMAIN m /\ m.is_direct_match

SplitFlavor == flavor \in {"paypal_to_bank", "simplified"}

\* the positions in the command log of the commands of kind op and type
\* issued while three-way match k was executed
CmdIdx(k, op, type) ==
    { n \in 1..Len(commands) :
        commands[n].match = k /\ commands[n].op = op /\ commands[n].type = type }

ScrapedOf(m) == scraped_transactions[m.scraped_transaction]

\* C5: for every executed three-way match the fee amount plus the net amount
\* written to the new fee and net transactions equals the gross amount
\* written to the original platform transaction.
C5_AsStated ==
    SplitFlavor =>
        \A k \in 1..Len(three_way_matches) :
            \A u \in CmdIdx(k, "update", ""), f \in CmdIdx(k, "create", "fees"),
               n \in CmdIdx(k, "create", "transfer") :
                (commands[u].ok /\ commands[f].ok /\ commands[n].ok) =>
                    commands[f].amount + commands[n].amount = commands[u].amount

\* the execution of three-way match k issued every command and none failed
Complete(k) ==
    /\ \E n \in CmdIdx(k, "create", "transfer") : commands[n].ok
    /\ \A n \in 1..Len(commands) : commands[n].match = k => commands[n].ok

\* C6: after a split with a gross-side bank record completes without a
\* command failure, the original platform transaction was given the clearing
\* account as destination and amount G and is the link target of the
\* gross-side bank record, exactly one 'fees' transaction of amount F runs
\* from the clearing account to the fees account, and exactly one 'transfer'
\* transaction of amount N runs from the clearing account to the original's
\* destination and is the link target of the net-side bank record.
C6_AsStated ==
    SplitFlavor =>
        \A k \in 1..Len(three_way_matches) :
            LET m == three_way_matches[k]
                pt == platform_transactions[m.original_platform_transaction]
                G == Abs(ScrapedOf(m).Gross)
                N == Abs(ScrapedOf(m).Net)
                F == G - N
            IN  (m.paypal_bank_transaction # 0 /\ Complete(k)) =>
                  /\ Cardinality(CmdIdx(k, "update", "")) = 1
                  /\ \A u \in CmdIdx(k, "update", "") :
                       /\ commands[u].pt = pt.id
                       /\ commands[u].amount = G
                       /\ commands[u].To_Account = TRANSFER_ACCOUNT_ID
                  /\ \E l \in CmdIdx(k, "link", "") :
                       /\ commands[l].ref =
                              BankRecord(m.paypal_bank_transaction).transaction_id
                       /\ commands[l].pt = pt.id
                  /\ Cardinality(CmdIdx(k, "create", "fees")) = 1
                  /\ \A f \in CmdIdx(k, "create", "fees") :
                       /\ commands[f].amount = F
                       /\ commands[f].From_Account = TRANSFER_ACCOUNT_ID
                       /\ commands[f].To_Account = FEES_ACCOUNT_ID
                  /\ Cardinality(CmdIdx(k, "create", "transfer")) = 1
                  /\ \A n \in CmdIdx(k, "create", "transfer") :
                       /\ commands[n].amount = N
                       /\ commands[n].From_Account = TRANSFER_ACCOUNT_ID
                       /\ commands[n].To_Account = pt.To_Account
                       /\ m.bank_side_transaction # 0 =>
                            \E l \in CmdIdx(k, "link", "") :
                              /\ commands[l].ref =
                                     BankRecord(m.bank_side_transaction).transaction_id
                              /\ commands[l].pt = commands[n].pt

\* the update of the original succeeded and the creation of the fee or of
\* the net transaction failed
PartialFailure(k) ==
    /\ \E u \in CmdIdx(k, "update", "") : commands[u].ok
    /\ \E n \in 1..Len(commands) :
         commands[n].match = k /\ commands[n].op = "create" /\ ~commands[n].ok

\* C7: when the update of the original succeeded and the creation of the
\* fee or net transaction failed, what split execution hands back to its
\* caller differs from what it hands back after a completed split, and no
\* second update of the original is issued.
C7_AsStated ==
    SplitFlavor =>
        \A k \in 1..Len(exec_result) :
            PartialFailure(k) =>
                /\ Cardinality(CmdIdx(k, "update", "")) = 1
                /\ \A j \in 1..Len(exec_result) :
                       Complete(j) => exec_result[k] # exec_result[j]

\* C8: a three-way match, and hence a split, is produced only from a scraped
\* line whose fee gross - net exceeds 0.01.
C8_AsStated ==
    /\ SplitFlavor =>
         \A k \in 1..Len(three_way_matches) :
             Abs(ScrapedOf(three_way_matches[k]).Gross)
             - Abs(ScrapedOf(three_way_matches[k]).Net) > 1
    /\ flavor = "create_and_link" =>
         \A n \in 1..Len(commands) :
             (commands[n].op = "create" /\ commands[n].type = "fees") =>
                 LET st == find_scraped_transaction_match(
                               BankRecord(commands[n].match), scraped_transactions)
                 IN  Abs(st.Gross) - Abs(st.Net) > 1

\* the bank records the run consumed for platform transaction pt_id
BanksFor(pt_id) ==
    UNION { BanksOf(matches[k]) : k \in MatchesOf(pt_id) }
    \cup UNION { ThreeWayBanks(three_way_matches[k]) :
                   k \in { j \in 1..Len(three_way_matches) :
                             three_way_matches[j].original_platform_transaction = pt_id } }

\* C9: for one transfer platform transaction no match is output in which
\* both legs are bank records of the same bank account.
C9_AsStated ==
    flavor \in {"transfer", "paypal_to_bank", "simplified"} =>
        \A pt \in Range(platform_transactions) :
            \A b1, b2 \in BanksFor(pt.id) :
                b1 # b2 => BankRecord(b1).bankaccount_id # BankRecord(b2).bankaccount_id

\* the leg search for the platform transaction just processed found bank
\* record b, and the two legs found are not on one bank account
LegFound(b) ==
    /\ b # 0
    /\ ~ /\ candidates.source # 0 /\ candidates.dest # 0
         /\ BankRecord(candidates.source).bankaccount_id
                = BankRecord(candidates.dest).bankaccount_id

HasOwnMatch(pt_id, b) ==
    \E k \in MatchesOf(pt_id) :
        "bank_transaction" \in DOMAIN matches[k] /\ matches[k].bank_transaction = b

\* C10: a transfer platform transaction is matched when only its source leg
\* is found, when only its destination leg is found, or when both are, and
\* each found leg has its own Match record for that platform transaction.
C10_AsStated ==
    (flavor \in {"transfer", "paypal_to_bank", "simplified"} /\ candidates.pt # 0) =>
        /\ LegFound(candidates.source) => HasOwnMatch(candidates.pt, candidates.source)
        /\ LegFound(candidates.dest) => HasOwnMatch(candidates.pt, candidates.dest)


\* ---------------------------------------------------------------------------
\* Fallback three-way matches, ordering, diagnostics
\* ---------------------------------------------------------------------------

\* the flavor's platform transactions in processing order
PayPalPts == IF flavor = "simplified" THEN S_pts ELSE P_pts

\* bank record b is claimed by no platform transaction other than pt_id
UnclaimedFor(b, pt_id) ==
    /\ LinkOf(BankRecord(b)) = 0
    /\ \A q \in Range(platform_transactions) : q.id # pt_id => b \notin BanksFor(q.id)

\* the fallback case for pt: no unlinked bank record at all on its source
\* account, a scraped transfer line with a fee above one cent whose gross or
\* net equals the platform amount within seven days, and an unclaimed bank
\* record of minus net on the destination account within seven days of both
FallbackCase(pt) ==
    /\ Len(pt.related_bank_transaction) = 0
    /\ \A bt \in Range(bank_transactions) :
           bt.bankaccount_id = pt.from_bankaccount_id => LinkOf(bt) # 0
    /\ \E st \in Range(scraped_transactions) :
           /\ st.Type = "transfer_sent"
           /\ Abs(st.Gross) - Abs(st.Net) > 1
           /\ pt.Amount \in {Abs(st.Gross), Abs(st.Net)}
           /\ Abs(st.Transaction_Date - pt.Date) <= 7
           /\ \E bt \in Range(bank_transactions) :
                  /\ bt.bankaccount_id = pt.to_bankaccount_id
                  /\ bt.amount = -Abs(st.Net)
                  /\ Abs(bt.date - st.Transaction_Date) <= 7
                  /\ Abs(bt.date - pt.Date) <= 7
                  /\ UnclaimedFor(bt.id, pt.id)

HasFallbackMatch(pt_id) ==
    \E k \in 1..Len(three_way_matches) :
        /\ three_way_matches[k].original_platform_transaction = pt_id
        /\ three_way_matches[k].paypal_bank_transaction = 0

\* C11: when no gross-side bank record is found for a transfer, a scraped
\* line with a positive fee matches the platform amount within the date
\* window and an unclaimed bank record of minus net exists on the destination
\* account, the finished matching pass of the PayPal-to-bank and of the
\* simplified matcher holds a three-way match for it whose gross-side bank
\* record is null.
C11_AsStated ==
    (flavor \in {"paypal_to_bank", "simplified"} /\ pc # "match") =>
        \A n \in 1..Len(PayPalPts) :
            FallbackCase(PayPalPts[n]) => HasFallbackMatch(PayPalPts[n].id)


\* the platform transaction a discovery step is about to process and the
\* unclaimed bank records that pass every predicate for it
DiscoveryPt ==
    IF flavor = "received" THEN R_rpts[i]
    ELSE IF flavor = "returned" THEN Ret_rpts[i]
    ELSE Dep_pts[i]

DiscoveryCandidates ==
    IF flavor = "received"
    THEN R_matching_bank_transactions(R_rpts[i], R_potential, checkbook_payments,
             used_checkbook_payment_ids, matched_bank_transaction_ids)
    ELSE IF flavor = "returned"
    THEN SelectSeq(Ret_potential, LAMBDA bt :
             /\ bt.id \notin matched_bank_transaction_ids
             /\ Ret_is_amount_match(Ret_rpts[i].Amount, bt.amount)
             /\ Ret_is_date_match(Ret_rpts[i].Date, bt.date)
             /\ Ret_is_bank_account_match(Ret_rpts[i], bt))
    ELSE SelectSeq(Dep_pool, LAMBDA bt : Dep_rules_pass(Dep_pts[i], bt))

\* a step of the fresh-discovery loop that outputs a Match
DiscoveryMatchStep ==
    /\ \/ flavor \in {"received", "returned"} /\ pc = "discover"
       \/ flavor = "deposit" /\ pc = "match"
    /\ Len(matches') = Len(matches) + 1

\* C12: in fresh discovery of the received, returned and deposit matchers,
\* when one of the unclaimed candidates that satisfy all predicates has the
\* date of the platform transaction, the bank record of the Match output for
\* it has that date too.
C12_AsStated ==
    [][ (/\ DiscoveryMatchStep
         /\ \E bt \in Range(DiscoveryCandidates) : bt.date = DiscoveryPt.Date)
        => BankRecord(matches'[Len(matches')].bank_transaction).date
               = DiscoveryPt.Date ]_vars



\* the received (returned) platform transactions of the run and their
\* duplicate-group key
ResolvePts == IF flavor = "received" THEN R_rpts ELSE Ret_rpts

ResolveKey(pt) == IF flavor = "received" THEN R_GroupKey(pt) ELSE Ret_GroupKey(pt)

\* the other members of the duplicate group of platform transaction pt_id
\* among the platform transactions still unmatched when the pass starts
GroupMates(pt_id) ==
    { q \in Range(Unmatched(ResolvePts, matched_platform_transaction_ids)) :
        /\ q.id # pt_id
        /\ \E p \in Range(ResolvePts) : p.id = pt_id /\ ResolveKey(p) = ResolveKey(q) }

ScenarioOneInputs ==
    /\ flavor = "received"
    /\ Len(platform_transactions) = 1 /\ Len(bank_transactions) = 1
    /\ Len(checkbook_payments) = 1
    /\ platform_transactions[1].Transaction_Type = "received"
    /\ platform_transactions[1].Amount = 250000
    /\ platform_transactions[1].Date = 20306
    /\ platform_transactions[1].to_bankaccount_id = 18668
    /\ bank_transactions[1].amount = -250000
    /\ bank_transactions[1].date = 20306
    /\ bank_transactions[1].bankaccount_id = 18668
    /\ checkbook_payments[1].amount = 250000
    /\ checkbook_payments[1].direction = "OUTGOING"
    /\ checkbook_payments[1].recipient = USER_ID
    /\ checkbook_payments[1].description = <<"D", "e", "p", "o", "s", "i", "t", " ", "f", "r", "o", "m", " ", "e", "x", "t", "e", "r", "n", "a", "l", " ", "s", "o", "u", "r", "c", "e">>

\* C14: on the records of scenario 1 the finished run of the received
\* matcher returns exactly one Match, and it holds the platform transaction,
\* the bank transaction and the checkbook payment.
C14_AsStated ==
    (ScenarioOneInputs /\ pc = "done") =>
        /\ Len(matches) = 1
        /\ matches[1].platform_transaction = platform_transactions[1].id
        /\ matches[1].bank_transaction = bank_transactions[1].id
        /\ matches[1].checkbook_payment = checkbook_payments[1].id



\* the records that carry no persisted link: platform transactions with an
\* empty related_bank_transaction, bank transactions with an empty link
\* field that no platform transaction names
RemainingPts ==
    SelectSeq(platform_transactions, LAMBDA pt : pt.related_bank_transaction = <<>>)

RemainingBts ==
    SelectSeq(bank_transactions, LAMBDA bt :
        /\ LinkOf(bt) = 0
        /\ \A pt \in Range(platform_transactions) :
               \A n \in 1..Len(pt.related_bank_transaction) :
                   pt.related_bank_transaction[n].id # bt.id)

NothingMatched == [matches |-> <<>>, bt_ids |-> {}, pt_ids |-> {}, used |-> {}]

\* the Matches of a fresh run of the flavor over the remaining records:
\* Step 2 followed by the duplicate-resolution pass
FreshMatches ==
    IF flavor = "received"
    THEN LET pts == R_received_platform_transactions(RemainingPts)
             potential == R_filter_potential_bank_transactions(RemainingBts)
             d == R_discover_all(pts, 1, potential, checkbook_payments, NothingMatched)
             upts == Unmatched(pts, d.pt_ids)
             ubts == Unmatched(potential, d.bt_ids)
             res == IF upts # <<>> /\ ubts # <<>>
                    THEN R_resolve_unmatched_duplicates(upts, ubts,
                             checkbook_payments, d.used)
                    ELSE R_EmptyResolution
         IN  Range(d.matches \o res.new_matches)
    ELSE LET pts == Ret_returned_platform_transactions(RemainingPts)
             potential == Ret_potential_bank_transactions(RemainingBts)
             d == Ret_discover_all(pts, 1, potential, NothingMatched)
             upts == Unmatched(pts, d.pt_ids)
             ubts == Unmatched(potential, d.bt_ids)
             res == IF upts # <<>> /\ ubts # <<>>
                    THEN Ret_resolve_unmatched_duplicates(upts, ubts, RemainingPts)
                    ELSE Ret_EmptyResolution
         IN  Range(d.matches \o res.new_matches)

\* the discovered Matches of the run
DiscoveredMatches == { m \in Range(matches) : ~IsDirect(m) }

ProcessingOrder ==
    CASE flavor = "received" -> R_rpts
      [] flavor = "returned" -> Ret_rpts
      [] flavor = "transfer" -> T_pts
      [] flavor = "paypal_to_bank" -> P_pts
      [] flavor = "simplified" -> S_pts
      [] flavor = "fee" -> F_pts
      [] flavor = "deposit" -> Dep_pts
      [] OTHER -> <<>>

\* a step of a matching loop: platform transaction number i is processed
ProcessingStep ==
    /\ pc \in {"direct", "discover", "match"}
    /\ i <= Len(ProcessingOrder)
    /\ i' = i + 1

\* C16: in every matcher flavor, when a platform transaction is processed
\* no platform transaction of the run with a strictly earlier date is still
\* waiting to be processed.
C16_AsStated ==
    [][ ProcessingStep =>
          \A k \in (i + 1)..Len(ProcessingOrder) :
              (ProcessingOrder[k].Date # 0 /\ ProcessingOrder[i].Date # 0)
                  => ProcessingOrder[k].Date >= ProcessingOrder[i].Date ]_vars

\* C17: a received run over records of which exactly one has a missing or
\* unparsable date skips that record and completes: it never ends in an
\* exception.
C17_AsStated ==
    (flavor = "received"
     /\ MalformedCount(platform_transactions, bank_transactions) = 1)
        => pc # "aborted"

\* the reasons that name no criterion
GenericReasons ==
    { "No simple or three-way match found based on the defined criteria.",
      "No potential bank transaction candidates found." }

\* some unlinked bank transaction sits on one of the two accounts of pt
CandidateExists(pt) ==
    \E bt \in Range(S_bank_transactions(bank_transactions)) :
        bt.bankaccount_id \in {pt.from_bankaccount_id, pt.to_bankaccount_id}

\* C18: in the simplified flavor a platform transaction reported unmatched
\* carries a generic reason only when no candidate bank transaction existed
\* at all; otherwise its reason names the criterion that failed.
C18_AsStated ==
    (flavor = "simplified" /\ pc # "match") =>
        \A k \in 1..Len(unmatched_info) :
            LET pt == platform_transactions[unmatched_info[k]]
            IN  S_unmatched_reason(pt) \in GenericReasons => ~CandidateExists(pt)

\* bt satisfies the amount, date and account rules of the deposit matcher
\* for pt
DepositFits(pt, bt) ==
    /\ pt.Date # 0 /\ pt.from_bankaccount_id # 0
    /\ bt.amount = pt.Amount
    /\ bt.date # 0
    /\ Abs(bt.date - pt.Date) <= 9
    /\ bt.bankaccount_id = pt.from_bankaccount_id

\* C19: in a finished deposit run, a deposit whose casino has no keyword
\* list is matched whenever an unlinked bank transaction that satisfies the
\* amount, date and account rules was left unclaimed: the keyword rule is
\* skipped, not failed.
C19_AsStated ==
    (flavor = "deposit" /\ pc = "done") =>
        \A pt \in Range(Dep_pts) :
            (/\ casino_keywords(pt.Name) = {}
             /\ \E bt \in Range(Dep_pool) : DepositFits(pt, bt))
                => pt.id \in matched_platform_transaction_ids

\* C20: the diagnostic pass over the unmatched platform transactions of a
\* finished received run leaves the claimed checkbook payments and the
\* claimed bank records as they were, also when it searches with the used
\* check bypassed.
C20_DiagnosticsLeaveUsedState ==
    [][ (pc = "done" /\ pc' = "investigated") =>
            /\ used_checkbook_payment_ids' = used_checkbook_payment_ids
            /\ matched_bank_transaction_ids' = matched_bank_transaction_ids
            /\ matched_platform_transaction_ids' = matched_platform_transaction_ids
      ]_vars

\* the pass has run and its bypassed search found a payment that another
\* platform transaction had claimed
C20_Witness ==
    /\ pc = "investigated"
    /\ used_checkbook_payment_ids # {}
    /\ \E k \in 1..Len(findings) : findings[k].reason_for_no_match = REASON_CP_USED

\* C21: the date predicate of the received and of the returned matcher
\* accepts a bank date exactly 5 days from the platform date and rejects one
\* 6 days from it.
C21_AsStated ==
    (pc = "returned" /\ predicate_call.fn = "_is_date_match") =>
        /\ Abs(predicate_call.a - predicate_call.b) = 5
               => predicate_call.result
        /\ Abs(predicate_call.a - predicate_call.b) = 6
               => ~predicate_call.result

\* the difference in cents that the amount predicate of the flavor looks at
AmountDifference(a, b) ==
    IF flavor = "received" THEN Abs(Abs(a) - Abs(b)) ELSE Abs(a - b)

AmountMatch(a, b) ==
    IF flavor = "received" THEN R_is_amount_match(a, b) ELSE Ret_is_amount_match(a, b)

\* C22: the amount predicate of the received and of the returned matcher
\* gives the same answer with its arguments swapped, accepts every pair of
\* amounts at most 0.01 apart and rejects a pair 0.02 apart.
C22_AsStated ==
    (pc = "returned" /\ predicate_call.fn = "_is_amount_match") =>
        /\ predicate_call.result = AmountMatch(predicate_call.b, predicate_call.a)
        /\ AmountDifference(predicate_call.a, predicate_call.b) <= 1
               => predicate_call.result
        /\ AmountDifference(predicate_call.a, predicate_call.b) = 2
               => ~predicate_call.result

\* bt satisfies the account, date, amount and keyword criteria of the fee
\* matcher for pt, in the direction of pt
FeeFits(pt, bt) ==
    /\ pt.Date # 0 /\ bt.date # 0
    /\ Abs(pt.Date - bt.date) <= 9
    /\ \/ /\ pt.from_Account_Type = "betting bank account"
          /\ pt.To_Account = FEES_ACCOUNT_ID
          /\ pt.from_bankaccount_id # 0
          /\ bt.bankaccount_id = pt.from_bankaccount_id
          /\ bt.amount = pt.Amount
          /\ bt.name \in BETTING_BANK_TO_FEES_KEYWORDS
       \/ /\ ~(/\ pt.from_Account_Type = "betting bank account"
               /\ pt.To_Account = FEES_ACCOUNT_ID)
          /\ pt.From_Account = FEES_ACCOUNT_ID
          /\ pt.to_Account_Type = "betting bank account"
          /\ pt.to_bankaccount_id # 0
          /\ bt.bankaccount_id = pt.to_bankaccount_id
          /\ bt.amount = -pt.Amount
          /\ bt.name \in FEES_TO_BETTING_BANK_KEYWORDS

\* the fee platform transaction about to be processed has two or more
\* unclaimed bank transactions that satisfy every criterion
AmbiguousFee ==
    /\ flavor = "fee" /\ pc = "match" /\ i <= Len(F_pts)
    /\ Cardinality({ k \in 1..Len(F_remaining) : FeeFits(F_pts[i], F_remaining[k]) }) >= 2

\* C23: when two or more unclaimed bank transactions satisfy every criterion
\* for the fee platform transaction being processed, the step issues no
\* command, removes no bank transaction from the pool and counts no match.
C23_AmbiguousFeeLeftUnresolved ==
    [][ (AmbiguousFee /\ i' = i + 1) =>
            /\ commands' = commands
            /\ matched_bank_transaction_ids' = matched_bank_transaction_ids
            /\ matches' = matches ]_vars

\* an ambiguous fee platform transaction has been processed in a run that
\* links its matches, and was left without a match
C23_Witness ==
    /\ flavor = "fee" /\ ~dry_run /\ pc = "match" /\ i = 2
    /\ matches = <<>> /\ commands = <<>>
    /\ Cardinality({ k \in 1..Len(F_remaining) : FeeFits(F_pts[1], F_remaining[k]) }) >= 2

\* the external references of the fetched bank records
ExternalRefs == { bank_transactions[k].transaction_id : k \in 1..Len(bank_transactions) } \ {0}

\* C24: every link command names a bank record by its external reference
\* (transaction_id), never by its internal id; for a matched bank record
\* without an external reference no link command is issued.
C24_AsStated ==
    \A k \in 1..Len(commands) :
        commands[k].op = "link" => commands[k].ref \in ExternalRefs

\* C25: in a dry run no command (link, update or create) is ever issued.
C25_DryRunIssuesNothing ==
    dry_run => commands = <<>>

\* a dry run has found a match and gone on without issuing a command
C25_Witness ==
    /\ dry_run
    /\ commands = <<>>
    /\ \/ matches # <<>> /\ pc \in {"done", "exec_three_way"}
       \/ three_way_matches # <<>> /\ pc = "done"

\* C26: a checkbook payment that backed a Match of the earlier run backs, in
\* the run after its links were persisted, no Match of a different platform
\* transaction.
C26_AsStated ==
    \A m \in Range(matches) : \A pm \in Range(previous_matches) :
        (m.checkbook_payment # 0 /\ m.checkbook_payment = pm.checkbook_payment)
            => m.platform_transaction = pm.platform_transaction

\* C27 as stated: when a received or returned run has finished, every
\* platform transaction of that flavor is the platform transaction of
\* exactly one Match or is listed in unmatched_platform_transactions,
\* never both and never neither.
C27_AsStated ==
    (flavor \in {"received", "returned"} /\ pc = "done") =>
        \A pt \in Range(RR_pts) :
            /\ Cardinality(MatchesOf(pt.id)) <= 1
            /\ (MatchesOf(pt.id) # {}) # (pt.id \in Range(unmatched_info))

\* the positions before n in the command log of the successful commands of
\* kind op and type issued in the same split execution as command n
EarlierOk(n, op, type) ==
    { j \in 1..(n - 1) :
        /\ commands[j].match = commands[n].match
        /\ commands[j].op = op /\ commands[j].type = type
        /\ commands[j].ok }

\* command n belongs to a split execution that updates an original
\* platform transaction
InSplitExecution(n) ==
    /\ commands[n].match # 0
    /\ \E u \in 1..Len(commands) :
          commands[u].match = commands[n].match /\ commands[u].op = "update"

\* C28 as stated: during the execution of a three-way split no create
\* command is issued unless the update of the original platform transaction
\* succeeded, and no link command is issued unless the update and both the
\* fee and the net creation succeeded.
C28_AsStated ==
    flavor \in {"paypal_to_bank", "simplified", "create_and_link"} =>
        \A n \in 1..Len(commands) :
            InSplitExecution(n) =>
                /\ commands[n].op = "create" => EarlierOk(n, "update", "") # {}
                /\ commands[n].op = "link" =>
                      /\ EarlierOk(n, "update", "") # {}
                      /\ EarlierOk(n, "create", "fees") # {}
                      /\ EarlierOk(n, "create", "transfer") # {}

\* the platform transactions of the flavor not yet marked as matched and
\* the potential bank transactions not yet claimed
StillUnmatched ==
    Unmatched(RR_pts, matched_platform_transaction_ids)

StillUnclaimed ==
    Unmatched(IF flavor = "received" THEN R_potential ELSE Ret_potential,
              matched_bank_transaction_ids)

\* bt passes the amount, date, account and processor-payment criteria of
\* the flavor for pt
PassesCriteria(pt, bt) ==
    IF flavor = "received"
    THEN /\ R_is_amount_match(pt.Amount, bt.amount)
         /\ R_is_date_match(pt.Date, bt.date)
         /\ R_is_bank_account_match(pt, bt)
         /\ R_find_matching_checkbook_payment(checkbook_payments,
                used_checkbook_payment_ids, bt, pt, FALSE) # NoRec
    ELSE /\ Ret_is_amount_match(pt.Amount, bt.amount)
         /\ Ret_is_date_match(pt.Date, bt.date)
         /\ Ret_is_bank_account_match(pt, bt)

\* C29: in every received or returned run the duplicate-resolution pass
\* adds no Match: when it starts, every bank transaction still unclaimed
\* fails the amount, date, account or processor-payment criterion for every
\* platform transaction still unmatched, and the pass leaves the list of
\* Matches as it found it.
C29_ResolutionAddsNoMatch ==
    [][ (flavor \in {"received", "returned"} /\ pc = "resolve") =>
            /\ \A pt \in Range(StillUnmatched) : \A bt \in Range(StillUnclaimed) :
                   ~PassesCriteria(pt, bt)
            /\ pc' = "done" => matches' = matches ]_vars

\* a finished run whose duplicate-resolution pass was handed a group of two
\* unmatched platform transactions with the same date, amount and account
\* and an unclaimed potential bank transaction on that account
C29_Witness ==
    /\ flavor \in {"received", "returned"} /\ pc = "done"
    /\ \E p, q \in Range(StillUnmatched) :
          /\ p.id # q.id
          /\ IF flavor = "received" THEN R_GroupKey(p) = R_GroupKey(q)
             ELSE Ret_GroupKey(p) = Ret_GroupKey(q)
          /\ \E bt \in Range(StillUnclaimed) :
                bt.bankaccount_id = IF flavor = "received"
                                    THEN p.to_bankaccount_id
                                    ELSE p.from_bankaccount_id

\* the trigger bank transactions the create-and-link run has processed so
\* far and were matched to the scraped line st
TriggersMatchedTo(st) ==
    { k \in 1..(i - 1) :
        k <= Len(CL_triggers) /\
        find_scraped_transaction_match(CL_triggers[k], scraped_transactions) = st }

\* the trigger bank transactions for which command n was issued
TriggerOf(n) == commands[n].match

\* C30 as stated: within one create-and-link run each scraped line is
\* matched to at most one trigger bank transaction, platform transactions
\* are created for at most one trigger per scraped line, and no existing
\* platform transaction is the link target of two different trigger bank
\* transactions.
C30_AsStated ==
    flavor = "create_and_link" =>
        /\ \A st \in Range(scraped_transactions) :
              /\ Cardinality(TriggersMatchedTo(st)) <= 1
              /\ Cardinality({ TriggerOf(n) : n \in
                     { j \in 1..Len(commands) :
                         /\ commands[j].op = "create"
                         /\ find_scraped_transaction_match(
                                BankRecord(TriggerOf(j)), scraped_transactions) = st }
                   }) <= 1
        /\ \A n, j \in 1..Len(commands) :
              ( /\ commands[n].op = "link" /\ commands[j].op = "link"
                /\ commands[n].pt = commands[j].pt
                /\ commands[n].pt \in 1..NPT
                /\ commands[n].ref = BankRecord(TriggerOf(n)).transaction_id
                /\ commands[j].ref = BankRecord(TriggerOf(j)).transaction_id )
              => TriggerOf(n) = TriggerOf(j)

=============================================================================
